---- MODULE Spec2Model ----
(***************************************************************************)
(* Model of the message store of remote-agents-core (msg_store.rs): a      *)
(* broadcast channel plus a byte-bounded history, with pushers, live       *)
(* receivers and history-then-live streams running concurrently.           *)
(* And of the control protocol peer of remote-agents-executor              *)
(* (claude/protocol.rs, claude/client.rs): the reader task between the     *)
(* child's stdout and stdin, the approval handler and the interrupt.       *)
(***************************************************************************)
EXTENDS Integers, Sequences, FiniteSets, TLC

(***************************************************************************)
(* Bounds of the model.                                                    *)
(***************************************************************************)
\* Total number of push calls in one behaviour: of the runs of the pushers alone,
\* of the runs that also watch a live receiver, and of those that watch a stream.
MaxPush == 5
MaxRecvPush == 4
MaxStreamPush == 3
\* ... and of the runs with several subscribers side by side.
MaxSubsPush == 3
\* Longest payload a pushed text message carries.
MaxLen == 4

\* Threads that call push, live receivers, and history_plus_stream callers.
Pushers == {"p1", "p2"}
Receivers == {"r1"}
\* The receivers of the runs with several subscribers.
AllReceivers == {"r1", "r2"}
Streams == {"s1"}

(***************************************************************************)
(* Program constants, scaled down so that eviction and mailbox overflow    *)
(* happen within MaxPush pushes.                                           *)
(***************************************************************************)
\* msg_store.rs:15 (100_000 * 1024 in the source).
HISTORY_BYTES == 4
\* msg_store.rs:47, broadcast::channel(10000).
CHANNEL_CAPACITY == 2
\* Largest usize, the ceiling of saturating_add.
USIZE_MAX == 7

(***************************************************************************)
(* LogMsg.  A message is its kind and the length of its payload; id is the *)
(* position of the message in the order of the push calls (the order of    *)
(* their first statement, the broadcast send).                             *)
(***************************************************************************)
Kinds == {"Stdout", "Stderr", "JsonPatch", "SessionId", "Finished"}

\* Cost constants of approx_bytes.
TEXT_OVERHEAD == 1
FINISHED_BYTES == 1

approx_bytes(msg) ==
    CASE msg.kind = "Finished" -> FINISHED_BYTES
      [] msg.kind = "JsonPatch" -> msg.len
      [] OTHER -> msg.len + TEXT_OVERHEAD

\* The (kind, payload length) pairs the pushers draw their messages from.
\* Their costs are 1, 2, 1 and MaxLen + 1; the last alone exceeds the budget.
Payloads == {<<"Stdout", 0>>, <<"JsonPatch", 2>>, <<"Finished", 0>>, <<"Stdout", MaxLen>>}

\* The payloads of the runs that watch a live receiver, which sees neither
\* kinds nor costs.
RecvPayloads == {<<"Stdout", 0>>, <<"Finished", 0>>}

\* The payloads of the runs that watch a stream: one of each kind the streams
\* tell apart, and one whose cost alone exceeds the budget.
StreamPayloads == {<<"Stdout", 0>>, <<"Stdout", MaxLen>>, <<"Stderr", 0>>, <<"Finished", 0>>}

\* The pusher and the payload of the runs with several subscribers.
SubsPushers == {"p1"}
SubsPayloads == {<<"Stdout", 0>>}

NoMsg == [id |-> 0, kind |-> "None", len |-> 0]

VARIABLES
    history,      \* Inner.history: sequence of StoredMsg [msg, bytes]
    total_bytes,  \* Inner.total_bytes
    sender,       \* every message sent on the broadcast channel, in send order
    pushing,      \* per pusher: the message of a push between send and append
    appended,     \* every StoredMsg ever appended, in append order (history of the run)
    receivers,    \* live receivers made by get_receiver
    streams,      \* streams made by history_plus_stream and the chunked streams
    \* The control protocol peer (claude/protocol.rs, claude/client.rs).
    auto_approve, \* ClaudeClient.auto_approve
    reader,       \* where the reader task is: "none", "select", "handler", "done"
    request,      \* the can_use_tool request whose handler call is awaited
    partial,      \* the bytes a pending read_line has taken from the pipe so far
    child,        \* the agent process: "running", "midline" or "exited"; lines split so far
    stdout,       \* the child's stdout pipe: pieces written and not yet read
    lines,        \* every line the child has written, in order (history of the run)
    stdin,        \* the frames written to the child's stdin, in order
    log,          \* the lines written raw to the log sink, in order
    interrupt_tx, \* the sender of the one-shot interrupt channel
    interrupt_rx, \* the fused receiver of the interrupt channel in read_loop
    signalled_in, \* where the reader was when the interrupt was sent ("unsent" before)
    calls,        \* the calls of ApprovalHandler::request_approval and their verdicts
    read,         \* every line read_line has returned, in order (history of the run)
    \* The session manager and the in-memory storage (manager.rs, storage/memory.rs).
    sessions,        \* MemoryStorage.sessions: id -> Session, or NoSession
    outputs,         \* MemoryStorage.outputs: id -> output blob, or NoOutput
    uuids,           \* how many ids Uuid::new_v4 has handed out (they are 1..uuids)
    clock,           \* what now() returns, in seconds
    active_sessions, \* SessionManager.active_sessions: id -> ActiveSession, or NoActive
    msg_stores,      \* how many MsgStore::new calls the manager has made
    children,        \* the agent process spawned for a session, and the call that spawned it
    callers,         \* the threads that call the manager and the storage
    signals,         \* per session: how often its interrupt channel was signalled
    interrupts,      \* per session: how many interrupt_session calls found it active
    ret,             \* what the last call that returned has returned
    \* The wire protocol (transport/protocol.rs).
    wire_pc,         \* how far the message under way has come
    wire_bytes,      \* the byte string handed to input() or output()
    wire_msg,        \* the ClientMessage or ServerMessage
    wire_json,       \* its JSON text
    wire_decoded,    \* what decode_input() or decode_output() returned
    \* The WebSocket transport (transport/websocket.rs).
    ws_in,           \* the frames the client has sent and handle_socket has not yet received
    ws_recv,         \* every frame receiver.next() has yielded, in order (history of the run)
    ws_pc,           \* the receive loop of handle_socket: "receiving" or "ended"
    ws_rx,           \* the unbounded channel from the receive loop to the send task
    ws_queued,       \* every ServerMessage handed to tx.send, in order (history of the run)
    ws_out,          \* the frames the send task has sent to the client, in order
    ws_send,         \* the send task: "running", "ended" or "aborted"
    \* CommandBuilder (executor/command.rs).
    cmd_base,        \* CommandBuilder.base, a string of characters
    cmd_params,      \* CommandBuilder.params: None or Some(list of strings)
    cmd_windows,     \* whether the build is the one for Windows (cfg(windows))
    cmd_result,      \* what the last build on this builder returned, and for which extra args
    \* Executable resolution (pty/shell.rs).
    path_env,        \* the PATH of the process, a list of directories
    path_callers,    \* the tasks that call resolve_executable_path, and where they are
    path_sets,       \* how often std::env::set_var("PATH") was called
    path_calls,      \* how many resolve_executable_path calls were started
    \* MsgStore::spawn_forwarder (core/msg_store.rs).
    fwd_pc,          \* the forwarder task: "none", "next", "append" or "finished"
    fwd_stream,      \* the items the source stream has ready, in order
    fwd_ended,       \* whether the source stream has ended
    fwd_items,       \* every item the source has yielded, in order (history of the run)
    fwd_msg,         \* the message of the forwarder's push between send and append
    \* send_json (protocol.rs): the tasks that write frames to the child stdin
    out_pc,          \* where each writing task is in send_json
    out_json,        \* the serialized frame of each task in send_json
    out_off,         \* how many bytes of its frame write_all has written
    out_lock,        \* the task that holds the stdin mutex, or "none"
    out_stdin,       \* every byte written to the child stdin, in order
    out_calls,       \* how many send_json calls have been made
    out_broken,      \* the child has closed its stdin
    out_fused        \* the interrupt receiver has resolved

storeVars == <<history, total_bytes, sender, pushing, appended, receivers, streams>>

peerVars == <<auto_approve, reader, request, partial, child, stdout, lines, stdin, log,
              interrupt_tx, interrupt_rx, signalled_in, calls, read>>

sessVars == <<sessions, outputs, uuids, clock, active_sessions, msg_stores, children,
              callers, signals, interrupts, ret>>

wireVars == <<wire_pc, wire_bytes, wire_msg, wire_json, wire_decoded>>

wsVars == <<ws_in, ws_recv, ws_pc, ws_rx, ws_queued, ws_out, ws_send>>

cmdVars == <<cmd_base, cmd_params, cmd_windows, cmd_result>>

pathVars == <<path_env, path_callers, path_sets, path_calls>>

fwdVars == <<fwd_pc, fwd_stream, fwd_ended, fwd_items, fwd_msg>>

outVars == <<out_pc, out_json, out_off, out_lock, out_stdin, out_calls, out_broken, out_fused>>

\* What the actions of one component leave alone.
outsideStore == <<peerVars, sessVars, wireVars, wsVars, cmdVars, pathVars, fwdVars, outVars>>
outsidePeer == <<storeVars, sessVars, wireVars, wsVars, cmdVars, pathVars, fwdVars, outVars>>
outsideSess == <<storeVars, peerVars, wireVars, wsVars, cmdVars, pathVars, fwdVars, outVars>>
outsideWire == <<storeVars, peerVars, sessVars, wsVars, cmdVars, pathVars, fwdVars, outVars>>
outsideWs == <<storeVars, peerVars, sessVars, wireVars, cmdVars, pathVars, fwdVars, outVars>>
outsideCmd == <<storeVars, peerVars, sessVars, wireVars, wsVars, pathVars, fwdVars, outVars>>
outsidePath == <<storeVars, peerVars, sessVars, wireVars, wsVars, cmdVars, fwdVars, outVars>>
outsideFwd == <<storeVars, peerVars, sessVars, wireVars, wsVars, cmdVars, pathVars, outVars>>
outsideOut == <<storeVars, peerVars, sessVars, wireVars, wsVars, cmdVars, pathVars, fwdVars>>

\* What a push of the forwarder leaves alone besides the store and itself.
outsideStoreFwd == <<peerVars, sessVars, wireVars, wsVars, cmdVars, pathVars, outVars>>

vars == <<storeVars, peerVars, sessVars, wireVars, wsVars, cmdVars, pathVars, fwdVars,
          outVars>>

(***************************************************************************)
(* usize arithmetic of push.                                               *)
(***************************************************************************)
saturating_add(a, b) == IF a + b > USIZE_MAX THEN USIZE_MAX ELSE a + b

saturating_sub(a, b) == IF b > a THEN 0 ELSE a - b

(***************************************************************************)
(* push, lines 63-69: the eviction loop on (history, total_bytes).         *)
(***************************************************************************)
\* Mutant: `if` for `while`, at most one entry is evicted.
EvictOnce(h, t, bytes) ==
    IF saturating_add(t, bytes) > HISTORY_BYTES /\ Len(h) > 0
    THEN [history |-> Tail(h), total_bytes |-> saturating_sub(t, Head(h).bytes)]
    ELSE [history |-> h, total_bytes |-> t]

\* Mutant: the loop subtracts the new message's cost, not the evicted entry's.
RECURSIVE EvictSubNew(_, _, _)
EvictSubNew(h, t, bytes) ==
    IF saturating_add(t, bytes) > HISTORY_BYTES
    THEN IF Len(h) > 0
         THEN EvictSubNew(Tail(h), saturating_sub(t, bytes), bytes)
         ELSE [history |-> h, total_bytes |-> t]
    ELSE [history |-> h, total_bytes |-> t]

\* Mutant: over budget, the whole history is cleared.
EvictAll(h, t, bytes) ==
    IF saturating_add(t, bytes) > HISTORY_BYTES
    THEN [history |-> <<>>, total_bytes |-> 0]
    ELSE [history |-> h, total_bytes |-> t]

RECURSIVE EvictLoop(_, _, _)
EvictLoop(h, t, bytes) ==
    IF saturating_add(t, bytes) > HISTORY_BYTES
    THEN IF Len(h) > 0
         THEN EvictLoop(Tail(h), saturating_sub(t, Head(h).bytes), bytes)
         ELSE [history |-> h, total_bytes |-> t]
    ELSE [history |-> h, total_bytes |-> t]

\* Mutant: a message whose cost alone exceeds the budget is rejected.
PushInnerReject(h, t, msg) ==
    LET bytes == approx_bytes(msg)
        ev == EvictLoop(h, t, bytes)
    IN  IF bytes > HISTORY_BYTES
        THEN [history |-> h, total_bytes |-> t]
        ELSE [history |-> Append(ev.history, [msg |-> msg, bytes |-> bytes]),
              total_bytes |-> saturating_add(ev.total_bytes, bytes)]

\* push, lines 60-71: Inner after the write-locked section.
PushInner(h, t, msg) ==
    LET bytes == approx_bytes(msg)
        ev == EvictLoop(h, t, bytes)
    IN  [history |-> Append(ev.history, [msg |-> msg, bytes |-> bytes]),
         total_bytes |-> saturating_add(ev.total_bytes, bytes)]

(***************************************************************************)
(* The broadcast channel.  A receiver is a cursor `next` into the send     *)
(* order; the channel keeps the last CHANNEL_CAPACITY messages.  A send    *)
(* with no receiver stores nothing (line 59 drops the error); as a new     *)
(* receiver starts at the tail, recording that send in `sender` changes    *)
(* nothing a receiver sees.                                                *)
(***************************************************************************)
\* Mutant: a new receiver starts at the oldest message the channel still holds.
SubscribeAtOldest ==
    IF Len(sender) > CHANNEL_CAPACITY THEN Len(sender) - CHANNEL_CAPACITY ELSE 0

\* Sender::subscribe: a new receiver starts at the channel's tail.
SubscribePos == Len(sender)

\* Receiver::recv at cursor `next`.
RecvResult(next) ==
    IF Len(sender) - next > CHANNEL_CAPACITY
    THEN [tag |-> "Lagged", msg |-> NoMsg, n |-> Len(sender) - CHANNEL_CAPACITY - next,
          next |-> Len(sender) - CHANNEL_CAPACITY]
    ELSE IF next < Len(sender)
         THEN [tag |-> "Ok", msg |-> sender[next + 1], n |-> 0, next |-> next + 1]
         ELSE [tag |-> "Empty", msg |-> NoMsg, n |-> 0, next |-> next]

NoReceiver == [state |-> "none", start |-> 0, next |-> 0, got |-> <<>>]

NoStream ==
    [pc |-> "none", mode |-> "all", hist |-> <<>>, pos |-> 0, start |-> 0, sub |-> 0,
     next |-> 0, seen |-> <<>>, out |-> <<>>, lagged |-> FALSE]

Modes == {"all", "stdout", "stderr"}

(***************************************************************************)
(* The control protocol peer: the lines of the child's stdout, the frames  *)
(* written to its stdin, and the verdicts of the approval handler.         *)
(***************************************************************************)
\* Number of lines the child writes in one behaviour, and how many of them
\* it writes in two pieces (a line longer than one write or one buffer).
MaxLines == 2
MaxSplit == 1

\* What a line of the child's stdout holds.  "invalid" is text that is not
\* JSON; "other" is a JSON message of any further type.
Shapes == {"blank", "can_use_tool", "can_use_tool_no_id", "hook_callback",
           "control_response", "result", "other", "invalid"}

\* A piece of the pipe: a whole line, or the head or the tail of one.
NoLine == [id |-> 0, shape |-> "none"]
Piece(line, part) == [line |-> line, part |-> part]

\* What is left of a line whose head a cancelled read_line had taken: the
\* tail of a JSON object is not JSON.
Fragment(line) == [id |-> line.id, shape |-> "fragment"]

\* protocol.rs:75-76, buffer.trim().is_empty().
\* Mutant: no line counts as empty.
NeverBlank(line) == FALSE

IsBlank(line) == line.shape = "blank"

\* protocol.rs:79, serde_json::from_str::<CLIMessage>(line).
CLIMessage(line) ==
    CASE line.shape = "can_use_tool" ->
            [tag |-> "ControlRequest", subtype |-> "CanUseTool", request_id |-> line.id,
             tool_name |-> "Bash", input |-> "input", tool_use_id |-> "toolu"]
      [] line.shape = "can_use_tool_no_id" ->
            [tag |-> "ControlRequest", subtype |-> "CanUseTool", request_id |-> line.id,
             tool_name |-> "Bash", input |-> "input", tool_use_id |-> "None"]
      [] line.shape = "hook_callback" ->
            [tag |-> "ControlRequest", subtype |-> "HookCallback", request_id |-> line.id,
             callback_id |-> "cb"]
      [] line.shape = "control_response" -> [tag |-> "ControlResponse"]
      [] line.shape = "result" -> [tag |-> "Result"]
      [] line.shape = "other" -> [tag |-> "Other"]
      [] OTHER -> [tag |-> "Err"]

\* The frames the reader writes (send_hook_response, send_error, interrupt).
ControlResponseSuccess(request_id, response) ==
    [type |-> "control_response", subtype |-> "success", request_id |-> request_id,
     response |-> response]

ControlResponseError(request_id, error) ==
    [type |-> "control_response", subtype |-> "error", request_id |-> request_id,
     error |-> error]

InterruptRequest == [type |-> "control_request", subtype |-> "interrupt"]

\* PermissionResult, as serialized into the response.
PermissionAllow(updated_input) == [behavior |-> "allow", updatedInput |-> updated_input]

PermissionDeny(message, interrupt) ==
    [behavior |-> "deny", message |-> message, interrupt |-> interrupt]

\* on_can_use_tool has to await the handler before it can answer.
AwaitHandler == [behavior |-> "await_handler"]

\* What ApprovalHandler::request_approval may return (approvals.rs): an
\* ApprovalResult or an ApprovalError, the latter by its Display string.
Verdicts ==
    {[tag |-> "Allow", updated_input |-> "updated"],
     [tag |-> "Deny", message |-> "no", interrupt |-> "None"],
     [tag |-> "Deny", message |-> "no", interrupt |-> "true"],
     [tag |-> "Err", error |-> "Approval request timed out"]}

PeerInit ==
    /\ auto_approve = TRUE
    /\ reader = "none"
    /\ request = NoLine
    /\ partial = NoLine
    /\ child = [state |-> "running", splits |-> 0]
    /\ stdout = <<>>
    /\ lines = <<>>
    /\ stdin = <<>>
    /\ log = <<>>
    /\ interrupt_tx = "held"
    /\ interrupt_rx = "pending"
    /\ signalled_in = "unsent"
    /\ calls = <<>>
    /\ read = <<>>

(***************************************************************************)
(* The session manager and its storage: sessions, outputs, active sessions *)
(* and the threads that call them.                                         *)
(***************************************************************************)
\* Number of sessions created in one behaviour (every id Uuid::new_v4 hands
\* out is new), and how far the clock of now() advances.
MaxSessions == 2
MaxClock == 1

SessionIds == 1..MaxSessions
\* An id no create has ever returned.
UnknownId == 0
Callers == {"c1", "c2"}

\* SessionStatus, traits.rs:18-29.
Statuses == {"Pending", "Running", "Completed", "Failed", "Cancelled"}
Terminal == {"Completed", "Failed", "Cancelled"}

\* ExecutionContext.working_dir of the sessions of the model.
WorkingDirs == {"/a", "/b"}

NoSession == [status |-> "absent"]
NoOutput == [present |-> FALSE, data |-> <<>>]
NoActive == [present |-> FALSE, msg_store |-> 0, interrupt_tx |-> "None"]
NoChild == [state |-> "none", by |-> "none"]
Idle == [pc |-> "idle", op |-> "none", id |-> 0, orig |-> 0, ctx |-> "none", msg_store |-> 0]
NoRet == [op |-> "none", id |-> 0, result |-> "none"]

SessInit ==
    /\ sessions = [id \in SessionIds |-> NoSession]
    /\ outputs = [id \in SessionIds |-> NoOutput]
    /\ uuids = 0
    /\ clock = 0
    /\ active_sessions = [id \in SessionIds |-> NoActive]
    /\ msg_stores = 0
    /\ children = [id \in SessionIds |-> NoChild]
    /\ callers = [c \in Callers |-> Idle]
    /\ signals = [id \in SessionIds |-> 0]
    /\ interrupts = [id \in SessionIds |-> 0]
    /\ ret = NoRet

(***************************************************************************)
(* The wire protocol: no message is under way.                             *)
(***************************************************************************)
NoWireMsg == [side |-> "none", type |-> "none", data |-> <<>>]

\* Option<Vec<u8>>: None.
NoBytes == [some |-> FALSE, bytes |-> <<>>]

WireIdle ==
    /\ wire_pc = "idle"
    /\ wire_bytes = <<>>
    /\ wire_msg = NoWireMsg
    /\ wire_json = <<>>
    /\ wire_decoded = NoBytes

(***************************************************************************)
(* The WebSocket transport: a connection on which nothing has arrived.     *)
(***************************************************************************)
WsIdle ==
    /\ ws_in = <<>>
    /\ ws_recv = <<>>
    /\ ws_pc = "receiving"
    /\ ws_rx = <<>>
    /\ ws_queued = <<>>
    /\ ws_out = <<>>
    /\ ws_send = "running"

(***************************************************************************)
(* CommandBuilder: CommandBuilder::new(""), nothing built yet.             *)
(***************************************************************************)
NoParams == [some |-> FALSE, list |-> <<>>]
NoBuild == [called |-> FALSE, extra |-> <<>>, ok |-> FALSE, error |-> "", program |-> <<>>,
            args |-> <<>>]

CmdIdle ==
    /\ cmd_base = <<>>
    /\ cmd_params = NoParams
    /\ cmd_windows = FALSE
    /\ cmd_result = NoBuild

(***************************************************************************)
(* Executable resolution: the process as started, nobody resolving.        *)
(***************************************************************************)
NotResolving == [pc |-> "idle", executable |-> "", refreshed |-> <<>>, merged |-> <<>>,
                 result |-> "none"]

PathIdle ==
    /\ path_env = <<"/bin">>
    /\ path_callers = [c \in Callers |-> NotResolving]
    /\ path_sets = 0
    /\ path_calls = 0

(***************************************************************************)
(* The tasks that hold a clone of the peer: the reader task and two        *)
(* callers.  None of them is in send_json, nothing has been written.       *)
(***************************************************************************)
Writers == {"reader", "w1", "w2"}

OutIdle ==
    /\ out_pc = [w \in Writers |-> "idle"]
    /\ out_json = [w \in Writers |-> <<>>]
    /\ out_off = [w \in Writers |-> 0]
    /\ out_lock = "none"
    /\ out_stdin = <<>>
    /\ out_calls = 0
    /\ out_broken = FALSE
    /\ out_fused = FALSE

(***************************************************************************)
(* spawn_forwarder: not called, the source has yielded nothing.            *)
(***************************************************************************)
FwdIdle ==
    /\ fwd_pc = "none"
    /\ fwd_stream = <<>>
    /\ fwd_ended = FALSE
    /\ fwd_items = <<>>
    /\ fwd_msg = NoMsg

StoreInit ==
    /\ history = <<>>
    /\ total_bytes = 0
    /\ sender = <<>>
    /\ pushing = [p \in Pushers |-> NoMsg]
    /\ appended = <<>>
    /\ receivers = [r \in AllReceivers |-> NoReceiver]
    /\ streams = [s \in Streams |-> NoStream]

Init ==
    /\ StoreInit
    /\ PeerInit
    /\ SessInit
    /\ WireIdle
    /\ WsIdle
    /\ CmdIdle
    /\ PathIdle
    /\ FwdIdle
    /\ OutIdle

(***************************************************************************)
(* push, line 59: broadcast the message to the live listeners.  The send   *)
(* never waits for a receiver, and its error (no receiver) is dropped.     *)
(***************************************************************************)
\* Mutant: a channel with backpressure, the send waits while the mailbox of a
\* live receiver is full.
PushSendBackpressure(p, payloads, maxPush) ==
    /\ pushing[p] = NoMsg
    /\ Len(sender) < maxPush
    /\ \A r \in AllReceivers :
          receivers[r].state = "live" => Len(sender) - receivers[r].next < CHANNEL_CAPACITY
    /\ \E pl \in payloads :
          LET msg == [id |-> Len(sender) + 1, kind |-> pl[1], len |-> pl[2]]
          IN  /\ sender' = Append(sender, msg)
              /\ pushing' = [pushing EXCEPT ![p] = msg]
    /\ UNCHANGED <<history, total_bytes, appended, receivers, streams, outsideStore>>

PushSend(p, payloads, maxPush) ==
    /\ pushing[p] = NoMsg
    /\ Len(sender) < maxPush
    /\ \E pl \in payloads :
          LET msg == [id |-> Len(sender) + 1, kind |-> pl[1], len |-> pl[2]]
          IN  /\ sender' = Append(sender, msg)
              /\ pushing' = [pushing EXCEPT ![p] = msg]
    /\ UNCHANGED <<history, total_bytes, appended, receivers, streams, outsideStore>>

(***************************************************************************)
(* push, lines 60-72: under the write lock, evict and append.              *)
(***************************************************************************)
PushAppend(p) ==
    /\ pushing[p] # NoMsg
    /\ LET inner == PushInner(history, total_bytes, pushing[p])
       IN  /\ history' = inner.history
           /\ total_bytes' = inner.total_bytes
           /\ appended' = Append(appended,
                   [msg |-> pushing[p], bytes |-> approx_bytes(pushing[p])])
    /\ pushing' = [pushing EXCEPT ![p] = NoMsg]
    /\ UNCHANGED <<sender, receivers, streams, outsideStore>>

(***************************************************************************)
(* get_receiver, lines 101-103.                                            *)
(***************************************************************************)
get_receiver(r) ==
    /\ receivers[r].state = "none"
    /\ receivers' = [receivers EXCEPT ![r] =
            [state |-> "live", start |-> Len(sender), next |-> SubscribePos, got |-> <<>>]]
    /\ UNCHANGED <<history, total_bytes, sender, pushing, appended, streams, outsideStore>>

\* The holder of a live receiver calls recv: a message or a lag notification.
Recv(r) ==
    /\ receivers[r].state = "live"
    /\ LET res == RecvResult(receivers[r].next)
       IN  /\ res.tag # "Empty"
           /\ receivers' = [receivers EXCEPT ![r].next = res.next,
                   ![r].got = Append(@, IF res.tag = "Ok" THEN res.msg
                                        ELSE [id |-> 0, kind |-> "Lagged", len |-> res.n])]
    /\ UNCHANGED <<history, total_bytes, sender, pushing, appended, streams, outsideStore>>

\* The holder drops its receiver (a client disconnects).
drop_receiver(r) ==
    /\ receivers[r].state = "live"
    /\ receivers' = [receivers EXCEPT ![r].state = "dropped"]
    /\ UNCHANGED <<history, total_bytes, sender, pushing, appended, streams, outsideStore>>

(***************************************************************************)
(* get_history, lines 107-115: the snapshot, taken under the read lock.    *)
(***************************************************************************)
get_history == [i \in 1..Len(history) |-> history[i].msg]

(***************************************************************************)
(* history_plus_stream, line 122: the tuple's first element, the snapshot. *)
(* mode "all" is history_plus_stream itself; "stdout" and "stderr" are the *)
(* chunked streams built on it (lines 136 and 152).                        *)
(***************************************************************************)
\* Mutant: the snapshot takes the history out of the store instead of copying it.
StreamSnapshotTake(s) ==
    /\ streams[s].pc = "none"
    /\ \E mode \in Modes :
          streams' = [streams EXCEPT ![s] =
              [NoStream EXCEPT !.pc = "snapshot", !.mode = mode, !.hist = get_history,
                               !.start = Len(sender)]]
    /\ history' = <<>>
    /\ UNCHANGED <<total_bytes, sender, pushing, appended, receivers, outsideStore>>

StreamSnapshot(s) ==
    /\ streams[s].pc = "none"
    /\ \E mode \in Modes :
          streams' = [streams EXCEPT ![s] =
              [NoStream EXCEPT !.pc = "snapshot", !.mode = mode, !.hist = get_history,
                               !.start = Len(sender)]]
    /\ UNCHANGED <<history, total_bytes, sender, pushing, appended, receivers, outsideStore>>

\* history_plus_stream, line 122: the tuple's second element, the receiver.
StreamSubscribe(s) ==
    /\ streams[s].pc = "snapshot"
    /\ streams' = [streams EXCEPT ![s].pc = "open", ![s].next = SubscribePos,
                                  ![s].sub = Len(sender)]
    /\ UNCHANGED <<history, total_bytes, sender, pushing, appended, receivers, outsideStore>>

(***************************************************************************)
(* What a stream does with one item of hist.chain(live).                   *)
(*   all:    yields it (line 128);                                         *)
(*   stdout: take_while ends the stream at Finished, filter_map keeps the  *)
(*           Stdout payloads (lines 137-143); stderr likewise (153-159).   *)
(***************************************************************************)
\* `seen` lists the items the fused stream hist.chain(live) has handed over.
\* Mutant: Finished is skipped like any other kind, the stream goes on.
StreamItemNoStop(st, msg) ==
    LET sn == [st EXCEPT !.seen = Append(@, msg)]
    IN  CASE sn.mode = "all" -> [sn EXCEPT !.out = Append(@, msg)]
          [] sn.mode = "stdout" /\ msg.kind = "Stdout" -> [sn EXCEPT !.out = Append(@, msg)]
          [] sn.mode = "stderr" /\ msg.kind = "Stderr" -> [sn EXCEPT !.out = Append(@, msg)]
          [] OTHER -> sn

StreamItem(st, msg) ==
    LET sn == [st EXCEPT !.seen = Append(@, msg)]
    IN  CASE sn.mode = "all" -> [sn EXCEPT !.out = Append(@, msg)]
          [] msg.kind = "Finished" -> [sn EXCEPT !.pc = "ended"]
          [] sn.mode = "stdout" /\ msg.kind = "Stdout" -> [sn EXCEPT !.out = Append(@, msg)]
          [] sn.mode = "stderr" /\ msg.kind = "Stderr" -> [sn EXCEPT !.out = Append(@, msg)]
          [] OTHER -> sn

\* One poll of the stream: the next history item, or else the live receiver
\* (lines 124-128); a lag notification is dropped by filter_map (line 126).
StreamPoll(s) ==
    /\ streams[s].pc = "open"
    /\ LET st == streams[s]
           res == RecvResult(st.next)
       IN  IF st.pos < Len(st.hist)
           THEN streams' = [streams EXCEPT ![s] =
                    StreamItem([st EXCEPT !.pos = st.pos + 1], st.hist[st.pos + 1])]
           ELSE /\ res.tag # "Empty"
                /\ streams' = [streams EXCEPT ![s] =
                       IF res.tag = "Ok"
                       THEN StreamItem([st EXCEPT !.next = res.next], res.msg)
                       ELSE [st EXCEPT !.next = res.next, !.lagged = TRUE]]
    /\ UNCHANGED <<history, total_bytes, sender, pushing, appended, receivers, outsideStore>>

\* Pushers alone: the history and its byte accounting.
Next ==
    \/ \E p \in Pushers : PushSend(p, Payloads, MaxPush)
    \/ \E p \in Pushers : PushAppend(p)

Spec == Init /\ [][Next]_vars

\* Pushers and a live receiver.
NextRecv ==
    \/ \E p \in Pushers : PushSend(p, RecvPayloads, MaxRecvPush)
    \/ \E p \in Pushers : PushAppend(p)
    \/ \E r \in Receivers : get_receiver(r)
    \/ \E r \in Receivers : Recv(r)

SpecRecv == Init /\ [][NextRecv]_vars

\* Pushers and a history_plus_stream (or chunked stream) caller.
NextStream ==
    \/ \E p \in Pushers : PushSend(p, StreamPayloads, MaxStreamPush)
    \/ \E p \in Pushers : PushAppend(p)
    \/ \E s \in Streams : StreamSnapshot(s)
    \/ \E s \in Streams : StreamSubscribe(s)
    \/ \E s \in Streams : StreamPoll(s)

SpecStream == Init /\ [][NextStream]_vars

\* One pusher, two live receivers that may be dropped, and a stream.
NextSubs ==
    \/ \E p \in SubsPushers : PushSend(p, SubsPayloads, MaxSubsPush)
    \/ \E p \in SubsPushers : PushAppend(p)
    \/ \E r \in AllReceivers : get_receiver(r)
    \/ \E r \in AllReceivers : Recv(r)
    \/ \E r \in AllReceivers : drop_receiver(r)
    \/ \E s \in Streams : StreamSnapshot(s)
    \/ \E s \in Streams : StreamSubscribe(s)
    \/ \E s \in Streams : StreamPoll(s)

SpecSubs == Init /\ [][NextSubs]_vars

(***************************************************************************)
(* The agent process: it writes lines to its stdout, whole or in two       *)
(* pieces, and exits between lines.                                        *)
(***************************************************************************)
ChildWrite(shape) ==
    /\ child.state = "running"
    /\ Len(lines) < MaxLines
    /\ LET line == [id |-> Len(lines) + 1, shape |-> shape]
       IN  /\ lines' = Append(lines, line)
           /\ stdout' = Append(stdout, Piece(line, "whole"))
    /\ UNCHANGED <<outsidePeer, auto_approve, reader, request, partial, child, stdin, log,
                   interrupt_tx, interrupt_rx, signalled_in, calls, read>>

ChildWriteHead(shape) ==
    /\ child.state = "running"
    /\ Len(lines) < MaxLines
    /\ child.splits < MaxSplit
    /\ shape # "blank"
    /\ LET line == [id |-> Len(lines) + 1, shape |-> shape]
       IN  /\ lines' = Append(lines, line)
           /\ stdout' = Append(stdout, Piece(line, "head"))
    /\ child' = [state |-> "midline", splits |-> child.splits + 1]
    /\ UNCHANGED <<outsidePeer, auto_approve, reader, request, partial, stdin, log,
                   interrupt_tx, interrupt_rx, signalled_in, calls, read>>

ChildWriteTail ==
    /\ child.state = "midline"
    /\ stdout' = Append(stdout, Piece(lines[Len(lines)], "tail"))
    /\ child' = [child EXCEPT !.state = "running"]
    /\ UNCHANGED <<outsidePeer, auto_approve, reader, request, partial, lines, stdin, log,
                   interrupt_tx, interrupt_rx, signalled_in, calls, read>>

ChildExit ==
    /\ child.state = "running"
    /\ child' = [child EXCEPT !.state = "exited"]
    /\ UNCHANGED <<outsidePeer, auto_approve, reader, request, partial, stdout, lines, stdin,
                   log, interrupt_tx, interrupt_rx, signalled_in, calls, read>>

(***************************************************************************)
(* The holder of the interrupt sender (manager.rs, interrupt_session).     *)
(***************************************************************************)
Signal ==
    /\ interrupt_tx = "held"
    /\ interrupt_tx' = "sent"
    /\ signalled_in' = reader
    /\ UNCHANGED <<outsidePeer, auto_approve, reader, request, partial, child, stdout, lines,
                   stdin, log, interrupt_rx, calls, read>>

\* The sender is dropped without a send.
DropSender ==
    /\ interrupt_tx = "held"
    /\ interrupt_tx' = "dropped"
    /\ UNCHANGED <<outsidePeer, auto_approve, reader, request, partial, child, stdout, lines,
                   stdin, log, interrupt_rx, signalled_in, calls, read>>

(***************************************************************************)
(* ClaudeClient (client.rs).                                               *)
(***************************************************************************)
\* Display of ClientError::ApprovalFailed, client.rs:122-123.
ApprovalFailedBare(e) == e

ApprovalFailed(e) == "Approval failed: " \o e

\* on_can_use_tool, lines 41-53 and 69-79: the answers given without the handler.
on_can_use_tool_ask_always(msg) == AwaitHandler

on_can_use_tool(msg) ==
    IF auto_approve THEN PermissionAllow(msg.input)
    ELSE IF msg.tool_use_id # "None" THEN AwaitHandler
    ELSE PermissionAllow(msg.input)

\* on_can_use_tool, lines 54-68: the handler's verdict as Result<PermissionResult, ClientError>.
approval_result(verdict) ==
    CASE verdict.tag = "Allow" ->
            [ok |-> TRUE, value |-> PermissionAllow(verdict.updated_input)]
      [] verdict.tag = "Deny" ->
            [ok |-> TRUE, value |-> PermissionDeny(verdict.message, verdict.interrupt)]
      [] OTHER -> [ok |-> FALSE, value |-> ApprovalFailed(verdict.error)]

\* on_hook_callback, lines 83-107.
on_hook_callback_allow_always(msg) ==
    [hookEventName |-> "PreToolUse", permissionDecision |-> "allow",
     permissionDecisionReason |-> "Auto-approved"]

on_hook_callback(msg) ==
    IF auto_approve
    THEN [hookEventName |-> "PreToolUse", permissionDecision |-> "allow",
          permissionDecisionReason |-> "Auto-approved"]
    ELSE [hookEventName |-> "PreToolUse", permissionDecision |-> "ask",
          permissionDecisionReason |-> "Forwarding " \o msg.callback_id \o " to approval handler"]

(***************************************************************************)
(* ProtocolPeer (protocol.rs): spawn, and the reader task's read_loop.     *)
(***************************************************************************)
\* ClaudeClient::new and ProtocolPeer::spawn: the reader task starts.
spawn(approval_handler) ==
    /\ reader = "none"
    /\ auto_approve' = (approval_handler = "None")
    /\ reader' = "select"
    /\ UNCHANGED <<outsidePeer, request, partial, child, stdout, lines, stdin, log,
                   interrupt_tx, interrupt_rx, signalled_in, calls, read>>

\* handle_control_request, lines 116-138, for the Result of on_can_use_tool.
\* Mutant: the response does not carry the id of the request.
can_use_tool_response_no_id(request_id, res) ==
    IF res.ok THEN ControlResponseSuccess(0, res.value)
    ELSE ControlResponseError(0, res.value)

can_use_tool_response(request_id, res) ==
    IF res.ok THEN ControlResponseSuccess(request_id, res.value)
    ELSE ControlResponseError(request_id, res.value)

\* handle_control_request, lines 109-159, up to the await of the handler.
handle_control_request(msg) ==
    IF msg.subtype = "CanUseTool"
    THEN LET result == on_can_use_tool(msg)
         IN  IF result = AwaitHandler
             THEN /\ reader' = "handler"
                  /\ request' = msg
                  /\ calls' = Append(calls,
                         [request_id |-> msg.request_id, tool_name |-> msg.tool_name,
                          input |-> msg.input, tool_use_id |-> msg.tool_use_id,
                          verdict |-> [tag |-> "Pending"]])
                  /\ UNCHANGED <<stdin, log>>
             ELSE /\ stdin' = Append(stdin, ControlResponseSuccess(msg.request_id, result))
                  /\ UNCHANGED <<reader, request, calls, log>>
    ELSE /\ stdin' = Append(stdin,
                ControlResponseSuccess(msg.request_id, on_hook_callback(msg)))
         /\ UNCHANGED <<reader, request, calls, log>>

\* Lines 84-90: where the reader goes after it has logged a line.
\* Mutant: no break after a result line.
AfterLogNoBreak(msg) == "select"

AfterLog(msg) == IF msg.tag = "Result" THEN "done" ELSE "select"

\* Lines 74-92: what the reader does with a line read_line has returned.
Dispatch(line) ==
    LET msg == CLIMessage(line)
    IN  IF IsBlank(line) \/ msg.tag = "ControlResponse"
        THEN UNCHANGED <<reader, request, stdin, log, calls>>
        ELSE IF msg.tag = "ControlRequest"
        THEN handle_control_request(msg)
        ELSE /\ log' = Append(log, line)
             /\ reader' = AfterLog(msg)
             /\ UNCHANGED <<request, stdin, calls>>

\* Line 71: the pending read_line takes the head of a line from the pipe and
\* stays pending, the newline has not come yet.
ReadPending ==
    /\ reader = "select"
    /\ Len(stdout) > 0
    /\ Head(stdout).part = "head"
    /\ partial' = Head(stdout).line
    /\ stdout' = Tail(stdout)
    /\ UNCHANGED <<outsidePeer, auto_approve, reader, request, child, lines, stdin, log,
                   interrupt_tx, interrupt_rx, signalled_in, calls, read>>

\* Lines 71-92: read_line returns a line, which is made of what this call
\* of read_line has taken from the pipe, and the reader dispatches it.
ReadLine ==
    /\ reader = "select"
    /\ Len(stdout) > 0
    /\ Head(stdout).part # "head"
    /\ LET piece == Head(stdout)
           line == IF piece.part = "whole" \/ partial = piece.line
                   THEN piece.line ELSE Fragment(piece.line)
       IN  /\ read' = Append(read, line)
           /\ Dispatch(line)
    /\ stdout' = Tail(stdout)
    /\ partial' = NoLine
    /\ UNCHANGED <<outsidePeer, auto_approve, child, lines, interrupt_tx, interrupt_rx,
                   signalled_in>>

\* Line 73: Ok(0), the child has closed its stdout.
ReadEof ==
    /\ reader = "select"
    /\ stdout = <<>>
    /\ child.state = "exited"
    /\ reader' = "done"
    /\ UNCHANGED <<outsidePeer, auto_approve, request, partial, child, stdout, lines, stdin,
                   log, interrupt_tx, interrupt_rx, signalled_in, calls, read>>

\* Lines 93-96: read_line fails.
ReadError ==
    /\ reader = "select"
    /\ reader' = "done"
    /\ UNCHANGED <<outsidePeer, auto_approve, request, partial, child, stdout, lines, stdin,
                   log, interrupt_tx, interrupt_rx, signalled_in, calls, read>>

\* Line 66: a fused future that has completed is never ready again.
\* Mutant: the receiver is polled as if it had not completed.
Unfused == "pending"

Fuse == "fired"

\* Lines 99-103: the interrupt branch of select! wins.  The receiver resolves
\* when a value was sent and when the sender was dropped; the read_line of
\* this iteration is dropped with what it had taken from the pipe.
InterruptBranchNoWrite ==
    /\ reader = "select"
    /\ interrupt_rx = "pending"
    /\ interrupt_tx # "held"
    /\ interrupt_rx' = Fuse
    /\ partial' = NoLine
    /\ UNCHANGED <<outsidePeer, auto_approve, reader, request, child, stdout, lines, stdin, log,
                   interrupt_tx, signalled_in, calls, read>>

InterruptBranch ==
    /\ reader = "select"
    /\ interrupt_rx = "pending"
    /\ interrupt_tx # "held"
    /\ stdin' = Append(stdin, InterruptRequest)
    /\ interrupt_rx' = Fuse
    /\ partial' = NoLine
    /\ UNCHANGED <<outsidePeer, auto_approve, reader, request, child, stdout, lines, log,
                   interrupt_tx, signalled_in, calls, read>>

\* Lines 122-137: the awaited handler returns and its verdict is relayed.
HandlerReturn(verdict) ==
    /\ reader = "handler"
    /\ stdin' = Append(stdin,
           can_use_tool_response(request.request_id, approval_result(verdict)))
    /\ calls' = [calls EXCEPT ![Len(calls)].verdict = verdict]
    /\ reader' = "select"
    /\ request' = NoLine
    /\ UNCHANGED <<outsidePeer, auto_approve, partial, child, stdout, lines, log,
                   interrupt_tx, interrupt_rx, signalled_in, read>>

\* The peer with its child, its approval handler and the interrupt sender.
NextPeer ==
    \/ \E h \in {"None", "Some"} : spawn(h)
    \/ \E shape \in Shapes : ChildWrite(shape)
    \/ \E shape \in Shapes : ChildWriteHead(shape)
    \/ ChildWriteTail
    \/ ChildExit
    \/ Signal
    \/ DropSender
    \/ ReadPending
    \/ ReadLine
    \/ ReadEof
    \/ ReadError
    \/ InterruptBranch
    \/ \E verdict \in Verdicts : HandlerReturn(verdict)

SpecPeer == Init /\ [][NextPeer]_vars

\* The peer with a child that writes whole lines of the shapes that decide
\* where the reader goes: a request for the handler, a result, any other.
FairShapes == {"can_use_tool", "result", "other"}

NextPeerFair ==
    \/ \E h \in {"None", "Some"} : spawn(h)
    \/ \E shape \in FairShapes : ChildWrite(shape)
    \/ ChildExit
    \/ Signal
    \/ DropSender
    \/ ReadLine
    \/ ReadEof
    \/ ReadError
    \/ InterruptBranch
    \/ \E verdict \in Verdicts : HandlerReturn(verdict)

\* ... and with what the scheduling gives: the spawned reader task starts,
\* select! takes a branch that is ready again and again, and the approval
\* handler returns.  Nothing is asked of the child or of the sender's holder.
SpecPeerFair ==
    /\ Init /\ [][NextPeerFair]_vars
    /\ WF_vars(\E h \in {"None", "Some"} : spawn(h))
    /\ SF_vars(InterruptBranch)
    /\ WF_vars(\E verdict \in Verdicts : HandlerReturn(verdict))


(***************************************************************************)
(* MemoryStorage (storage/memory.rs).  Its methods take the std RwLock of  *)
(* one map at a time and never await, so each locked section is one step.  *)
(***************************************************************************)
\* Longest output blob of the model, in bytes.
MaxBlob == 2

Exists(id) == id \in SessionIds /\ sessions[id] # NoSession

\* create, lines 52-62: the new Session.
\* Mutant: the session is created as Running.
NewSessionRunning(ctx) ==
    [status |-> "Running", agent_session_id |-> "None", created_at |-> clock,
     updated_at |-> clock, working_dir |-> ctx]

NewSession(ctx) ==
    [status |-> "Pending", agent_session_id |-> "None", created_at |-> clock,
     updated_at |-> clock, working_dir |-> ctx]

\* Uuid::new_v4, line 52: an id no earlier call has got.
\* Mutant: the last id is handed out again.
SameUuid == IF uuids = 0 THEN 1 ELSE uuids

new_v4 == uuids + 1

\* Calls that have reserved an id of the model but not yet drawn it.
Reserved == Cardinality({c \in Callers : callers[c].pc = "create_sessions"})

\* create, lines 52-67: the insert into sessions, by caller c for operation op.
create_sessions(c, op, ctx) ==
    LET id == new_v4
    IN  /\ sessions' = [sessions EXCEPT ![id] = NewSession(ctx)]
        /\ uuids' = IF id > uuids THEN id ELSE uuids
        /\ callers' = [callers EXCEPT ![c] =
               [pc |-> "create_outputs", op |-> op, id |-> id, orig |-> callers[c].orig,
                ctx |-> ctx, msg_store |-> 0]]

\* SessionStorage::create called by a client of the storage.
create(c, ctx) ==
    /\ callers[c].pc = "idle"
    /\ uuids + Reserved < MaxSessions
    /\ create_sessions(c, "create", ctx)
    /\ UNCHANGED <<outsideSess, outputs, clock, active_sessions, msg_stores, children,
                   signals, interrupts, ret>>

\* create, lines 69-74: the insert into outputs, and the return of the id.
CreateOutputs(c) ==
    /\ callers[c].pc = "create_outputs"
    /\ outputs' = [outputs EXCEPT ![callers[c].id] = [present |-> TRUE, data |-> <<>>]]
    /\ IF callers[c].op = "create"
       THEN /\ callers' = [callers EXCEPT ![c] = Idle]
            /\ ret' = [op |-> "create", id |-> callers[c].id, result |-> "Ok"]
       ELSE /\ callers' = [callers EXCEPT ![c].pc = "update_status"]
            /\ ret' = ret
    /\ UNCHANGED <<outsideSess, sessions, uuids, clock, active_sessions, msg_stores,
                   children, signals, interrupts>>

\* get, lines 77-84.
get(id) == IF Exists(id) THEN sessions[id] ELSE NoSession

\* update_status, lines 86-98: the sessions map after the call, and its result.
\* Mutant: a session that is not there is inserted.
update_status_upsert(id, status) ==
    [sessions |-> IF id \in SessionIds
                  THEN [sessions EXCEPT ![id] = [NewSession("/a") EXCEPT !.status = status]]
                  ELSE sessions,
     result |-> "Ok"]

update_status(id, status) ==
    IF Exists(id)
    THEN [sessions |-> [sessions EXCEPT ![id].status = status, ![id].updated_at = clock],
          result |-> "Ok"]
    ELSE [sessions |-> sessions, result |-> "NotFound"]

\* set_agent_session_id, lines 100-116.
set_agent_session_id(id, agent_session_id) ==
    IF Exists(id)
    THEN [sessions |-> [sessions EXCEPT ![id].agent_session_id = agent_session_id,
                                        ![id].updated_at = clock],
          result |-> "Ok"]
    ELSE [sessions |-> sessions, result |-> "NotFound"]

\* append_output, lines 152-163.
append_output(id, data) ==
    IF id \in SessionIds /\ outputs[id].present
    THEN [outputs |-> [outputs EXCEPT ![id].data = @ \o data], result |-> "Ok"]
    ELSE [outputs |-> outputs, result |-> "NotFound"]

\* get_output, lines 165-175.
get_output(id) ==
    IF id \in SessionIds /\ outputs[id].present
    THEN [result |-> "Ok", data |-> outputs[id].data]
    ELSE [result |-> "NotFound", data |-> <<>>]

\* The calls of a client of the storage, each one locked section.
UpdateStatus(id, status) ==
    /\ sessions' = update_status(id, status).sessions
    /\ ret' = [op |-> "update_status", id |-> id, result |-> update_status(id, status).result]
    /\ UNCHANGED <<outsideSess, outputs, uuids, clock, active_sessions, msg_stores, children,
                   callers, signals, interrupts>>

SetAgentSessionId(id, agent_session_id) ==
    /\ sessions' = set_agent_session_id(id, agent_session_id).sessions
    /\ ret' = [op |-> "set_agent_session_id", id |-> id,
               result |-> set_agent_session_id(id, agent_session_id).result]
    /\ UNCHANGED <<outsideSess, outputs, uuids, clock, active_sessions, msg_stores, children,
                   callers, signals, interrupts>>

AppendOutput(id, data) ==
    /\ id \in SessionIds => Len(outputs[id].data) < MaxBlob
    /\ outputs' = append_output(id, data).outputs
    /\ ret' = [op |-> "append_output", id |-> id, result |-> append_output(id, data).result]
    /\ UNCHANGED <<outsideSess, sessions, uuids, clock, active_sessions, msg_stores, children,
                   callers, signals, interrupts>>

\* now(), lines 42-47: a second passes.
Tick ==
    /\ clock < MaxClock
    /\ clock' = clock + 1
    /\ UNCHANGED <<outsideSess, sessions, outputs, uuids, active_sessions, msg_stores,
                   children, callers, signals, interrupts, ret>>

\* The ids a client may pass: those of the model and one never created.
AnyIds == SessionIds \cup {UnknownId}

\* The clients of the storage: every method that writes.  get and get_output
\* only read, they are the operators above.
NextStorage ==
    \/ \E c \in Callers : create(c, "/a")
    \/ \E c \in Callers : CreateOutputs(c)
    \/ \E id \in AnyIds : UpdateStatus(id, "Running")
    \/ \E id \in AnyIds : SetAgentSessionId(id, "agent")
    \/ \E id \in AnyIds : AppendOutput(id, <<1>>)

(***************************************************************************)
(* list, lines 118-150.  The result stands for the Session clones by their *)
(* ids; `order` is the order in which the HashMap hands out its values.    *)
(***************************************************************************)
\* A SessionFilter; "Any" is None, and has_limit tells Some(limit) from None.
Filter(status, working_dir, has_limit, limit) ==
    [status |-> status, working_dir |-> working_dir, has_limit |-> has_limit, limit |-> limit]

\* Lines 126-138, the closure of filter().
Matches(id, filter) ==
    /\ Exists(id)
    /\ filter.status # "Any" => sessions[id].status = filter.status
    /\ filter.working_dir # "Any" => sessions[id].working_dir = filter.working_dir

\* Lines 124-140: the matching values, in the order of the map.
Filtered(filter, order) == SelectSeq(order, LAMBDA id : Matches(id, filter))

\* Line 143, sort_by (a stable sort) with b.created_at.cmp(&a.created_at):
\* an element goes behind every element that is not older than it.
InsertDesc(sorted, id) ==
    LET ahead == {i \in 1..Len(sorted) :
                     sessions[sorted[i]].created_at >= sessions[id].created_at}
        k == Cardinality(ahead)
    IN  SubSeq(sorted, 1, k) \o <<id>> \o SubSeq(sorted, k + 1, Len(sorted))

RECURSIVE sort_by_created_at_desc(_)
sort_by_created_at_desc(seq) ==
    IF seq = <<>> THEN <<>>
    ELSE InsertDesc(sort_by_created_at_desc(SubSeq(seq, 1, Len(seq) - 1)), seq[Len(seq)])

\* Mutant: no sort, the values stay in the order of the map.
Unsorted(seq) == seq

Sorted(seq) == sort_by_created_at_desc(seq)

\* Lines 145-147, truncate.
truncate(seq, filter) ==
    IF filter.has_limit /\ filter.limit < Len(seq) THEN SubSeq(seq, 1, filter.limit) ELSE seq

list(filter, order) == truncate(Sorted(Filtered(filter, order)), filter)

\* The orders a HashMap may hand out the ids in.
Orders ==
    {o \in [1..MaxSessions -> SessionIds] : \A i, j \in 1..MaxSessions : o[i] = o[j] => i = j}

\* The filters the clients of the model ask with.
ListFilters ==
    {Filter("Any", "Any", FALSE, 0), Filter("Any", "Any", TRUE, 1),
     Filter("Completed", "Any", FALSE, 0), Filter("Any", "/a", TRUE, 1)}

List(filter, order) ==
    /\ ret' = [op |-> "list", filter |-> filter, result |-> list(filter, order)]
    /\ UNCHANGED <<outsideSess, sessions, outputs, uuids, clock, active_sessions, msg_stores,
                   children, callers, signals, interrupts>>

\* A client that creates sessions in two directories, completes them as time
\* passes, and lists them.
NextList ==
    \/ \E ctx \in WorkingDirs : create("c1", ctx)
    \/ CreateOutputs("c1")
    \/ \E id \in SessionIds : UpdateStatus(id, "Completed")
    \/ Tick
    \/ \E filter \in ListFilters, order \in Orders : List(filter, order)

SpecList == Init /\ [][NextList]_vars

\* Clients that create sessions and set their status, to any status at any time.
NextStatus ==
    \/ \E c \in Callers : create(c, "/a")
    \/ \E c \in Callers : CreateOutputs(c)
    \/ \E id \in AnyIds, status \in Statuses : UpdateStatus(id, status)

SpecStatus == Init /\ [][NextStatus]_vars

\* The storage is used at any time of the clock.
InitStorage ==
    /\ StoreInit
    /\ PeerInit
    /\ WireIdle
    /\ WsIdle
    /\ CmdIdle
    /\ PathIdle
    /\ FwdIdle
    /\ OutIdle
    /\ sessions = [id \in SessionIds |-> NoSession]
    /\ outputs = [id \in SessionIds |-> NoOutput]
    /\ uuids = 0
    /\ clock \in 0..MaxClock
    /\ active_sessions = [id \in SessionIds |-> NoActive]
    /\ msg_stores = 0
    /\ children = [id \in SessionIds |-> NoChild]
    /\ callers = [c \in Callers |-> Idle]
    /\ signals = [id \in SessionIds |-> 0]
    /\ interrupts = [id \in SessionIds |-> 0]
    /\ ret = NoRet

SpecStorage == InitStorage /\ [][NextStorage]_vars

(***************************************************************************)
(* SessionManager (manager.rs).  A call is a sequence of awaits; what lies *)
(* between two awaits on a lock or on the executor is one step.            *)
(***************************************************************************)
\* How many interrupt_session calls reach an active session in one behaviour.
MaxInterrupts == 2

RECURSIVE InterruptsOf(_)
InterruptsOf(ids) ==
    IF ids = {} THEN 0
    ELSE LET id == CHOOSE i \in ids : TRUE
         IN  interrupts[id] + InterruptsOf(ids \ {id})

\* start_session, line 65: storage.create begins.
start_session(c, ctx) ==
    /\ callers[c].pc = "idle"
    /\ uuids + Reserved < MaxSessions
    /\ create_sessions(c, "start_session", ctx)
    /\ UNCHANGED <<outsideSess, outputs, clock, active_sessions, msg_stores, children,
                   signals, interrupts, ret>>

\* start_follow_up, lines 96-104: what the lookup of the original yields.
\* Mutant: an original without agent_session_id is accepted.
follow_up_target_any(original_session_id) ==
    [found |-> get(original_session_id) # NoSession,
     ctx |-> IF get(original_session_id) # NoSession
             THEN get(original_session_id).working_dir ELSE "none"]

follow_up_target(original_session_id) ==
    LET session == get(original_session_id)
    IN  IF session = NoSession THEN [found |-> FALSE, ctx |-> "none"]
        ELSE IF session.agent_session_id = "None" THEN [found |-> FALSE, ctx |-> "none"]
        ELSE [found |-> TRUE, ctx |-> session.working_dir]

\* start_follow_up, lines 96-104: storage.get and the two ok_or checks.
FollowUpGet(c, original_session_id) ==
    /\ callers[c].pc = "idle"
    /\ LET target == follow_up_target(original_session_id)
       IN  IF target.found
           THEN /\ uuids + Reserved < MaxSessions
                /\ callers' = [callers EXCEPT ![c] =
                       [Idle EXCEPT !.pc = "create_sessions", !.op = "start_follow_up",
                                    !.orig = original_session_id, !.ctx = target.ctx]]
                /\ ret' = ret
           ELSE /\ ret' = [op |-> "start_follow_up", id |-> original_session_id,
                           result |-> "NotFound"]
                /\ callers' = callers
    /\ UNCHANGED <<outsideSess, sessions, outputs, uuids, clock, active_sessions, msg_stores,
                   children, signals, interrupts>>

\* start_follow_up, line 106: storage.create begins.
FollowUpCreate(c) ==
    /\ callers[c].pc = "create_sessions"
    /\ create_sessions(c, "start_follow_up", callers[c].ctx)
    /\ UNCHANGED <<outsideSess, outputs, clock, active_sessions, msg_stores, children,
                   signals, interrupts, ret>>

\* Lines 66-68 and 107-109: update_status(id, Running).
UpdateRunning(c) ==
    /\ callers[c].pc = "update_status"
    /\ sessions' = update_status(callers[c].id, "Running").sessions
    /\ callers' = [callers EXCEPT ![c].pc = "spawn"]
    /\ UNCHANGED <<outsideSess, outputs, uuids, clock, active_sessions, msg_stores, children,
                   signals, interrupts, ret>>

\* Line 70: MsgStore::new, a store no session has yet.
\* Mutant: the store made last is handed out again.
SharedMsgStore == IF msg_stores = 0 THEN 1 ELSE msg_stores

NewMsgStore == msg_stores + 1

\* Lines 70-71 and 111-115: the store is made and the executor spawns the
\* child, or fails and the call returns its error.
Spawn(c, ok) ==
    /\ callers[c].pc = "spawn"
    /\ msg_stores' = msg_stores + 1
    /\ IF ok
       THEN /\ children' = [children EXCEPT ![callers[c].id] =
                   [state |-> "running", by |-> callers[c].op]]
            /\ callers' = [callers EXCEPT ![c].pc = "insert", ![c].msg_store = NewMsgStore]
            /\ ret' = ret
       ELSE /\ children' = children
            /\ callers' = [callers EXCEPT ![c] = Idle]
            /\ ret' = [op |-> callers[c].op, id |-> callers[c].id, result |-> "Executor"]
    /\ UNCHANGED <<outsideSess, sessions, outputs, uuids, clock, active_sessions, signals,
                   interrupts>>

\* Lines 73-84 and 117-129: the ActiveSession is inserted with no interrupt
\* sender, the process handle is dropped, the id is returned.
InsertActive(c) ==
    /\ callers[c].pc = "insert"
    /\ active_sessions' = [active_sessions EXCEPT ![callers[c].id] =
           [present |-> TRUE, msg_store |-> callers[c].msg_store, interrupt_tx |-> "None"]]
    /\ callers' = [callers EXCEPT ![c] = Idle]
    /\ ret' = [op |-> callers[c].op, id |-> callers[c].id, result |-> "Ok"]
    /\ UNCHANGED <<outsideSess, sessions, outputs, uuids, clock, msg_stores, children,
                   signals, interrupts>>

\* get_msg_store, lines 133-139; 0 is None.
get_msg_store(id) ==
    IF id \in SessionIds /\ active_sessions[id].present
    THEN active_sessions[id].msg_store ELSE 0

\* interrupt_session, lines 145-153.
\* Mutant: the session is taken out of the active sessions.
InterruptSessionRemove(id) ==
    /\ id \in SessionIds
    /\ active_sessions[id].present
    /\ InterruptsOf(SessionIds) < MaxInterrupts
    /\ active_sessions' = [active_sessions EXCEPT ![id] = NoActive]
    /\ interrupts' = [interrupts EXCEPT ![id] = @ + 1]
    /\ ret' = [op |-> "interrupt_session", id |-> id, result |-> "Ok"]
    /\ UNCHANGED <<outsideSess, sessions, outputs, uuids, clock, msg_stores, children,
                   callers, signals>>

InterruptSession(id) ==
    /\ IF id \in SessionIds /\ active_sessions[id].present
       THEN /\ InterruptsOf(SessionIds) < MaxInterrupts
            /\ interrupts' = [interrupts EXCEPT ![id] = @ + 1]
            /\ IF active_sessions[id].interrupt_tx = "Some"
               THEN /\ active_sessions' = [active_sessions EXCEPT ![id].interrupt_tx = "None"]
                    /\ signals' = [signals EXCEPT ![id] = @ + 1]
               ELSE UNCHANGED <<active_sessions, signals>>
       ELSE UNCHANGED <<active_sessions, signals, interrupts>>
    /\ ret' = [op |-> "interrupt_session", id |-> id, result |-> "Ok"]
    /\ UNCHANGED <<outsideSess, sessions, outputs, uuids, clock, msg_stores, children,
                   callers>>

\* The agent process of a session ends, by itself: it exits or it crashes.
ProcessExit(id, how) ==
    /\ children[id].state = "running"
    /\ children' = [children EXCEPT ![id].state = how]
    /\ UNCHANGED <<outsideSess, sessions, outputs, uuids, clock, active_sessions, msg_stores,
                   callers, signals, interrupts, ret>>

\* Callers of start_session and interrupt_session, and the children.
NextManager ==
    \/ \E c \in Callers : start_session(c, "/a")
    \/ \E c \in Callers : CreateOutputs(c)
    \/ \E c \in Callers : UpdateRunning(c)
    \/ \E c \in Callers, ok \in BOOLEAN : Spawn(c, ok)
    \/ \E c \in Callers : InsertActive(c)
    \/ \E id \in AnyIds : InterruptSession(id)
    \/ \E id \in SessionIds, how \in {"exited", "crashed"} : ProcessExit(id, how)

\* Callers of start_session and start_follow_up, and the one storage call
\* the manager leaves to others: set_agent_session_id.
NextFollowUp ==
    \/ \E c \in Callers : start_session(c, "/a")
    \/ \E c \in Callers, id \in AnyIds : FollowUpGet(c, id)
    \/ \E c \in Callers : FollowUpCreate(c)
    \/ \E c \in Callers : CreateOutputs(c)
    \/ \E c \in Callers : UpdateRunning(c)
    \/ \E c \in Callers, ok \in BOOLEAN : Spawn(c, ok)
    \/ \E c \in Callers : InsertActive(c)
    \/ \E id \in SessionIds : SetAgentSessionId(id, "agent")

SpecFollowUp == Init /\ [][NextFollowUp]_vars

SpecManager == Init /\ [][NextManager]_vars

(***************************************************************************)
(* The wire protocol (transport/protocol.rs): base64 of the STANDARD       *)
(* engine, and the JSON text serde writes for the tagged enums.  A String  *)
(* is a sequence of one-character strings.                                 *)
(***************************************************************************)
\* The longest byte string handed to input() or output().
MaxBytes == 3

\* Byte values that between them yield every kind of base64 character,
\* '+' and '/' included.
ByteValues == {0, 34, 251, 255}

ByteStrings == UNION {[1..n -> ByteValues] : n \in 0..MaxBytes}

Alphabet ==
    <<"A", "B", "C", "D", "E", "F", "G", "H", "I", "J", "K", "L", "M",
      "N", "O", "P", "Q", "R", "S", "T", "U", "V", "W", "X", "Y", "Z",
      "a", "b", "c", "d", "e", "f", "g", "h", "i", "j", "k", "l", "m",
      "n", "o", "p", "q", "r", "s", "t", "u", "v", "w", "x", "y", "z",
      "0", "1", "2", "3", "4", "5", "6", "7", "8", "9", "+", "/">>

Symbol(sextet) == Alphabet[sextet + 1]

InAlphabet(ch) == \E i \in 1..64 : Alphabet[i] = ch

Sextet(ch) == (CHOOSE i \in 1..64 : Alphabet[i] = ch) - 1

\* BASE64.encode without the '=' padding.
\* Mutant of BASE64_encode.
RECURSIVE BASE64_encode_no_pad(_)
BASE64_encode_no_pad(data) ==
    IF Len(data) = 0 THEN <<>>
    ELSE IF Len(data) = 1
    THEN <<Symbol(data[1] \div 4), Symbol((data[1] % 4) * 16)>>
    ELSE IF Len(data) = 2
    THEN <<Symbol(data[1] \div 4),
           Symbol((data[1] % 4) * 16 + data[2] \div 16),
           Symbol((data[2] % 16) * 4)>>
    ELSE <<Symbol(data[1] \div 4),
           Symbol((data[1] % 4) * 16 + data[2] \div 16),
           Symbol((data[2] % 16) * 4 + data[3] \div 64),
           Symbol(data[3] % 64)>>
         \o BASE64_encode_no_pad(SubSeq(data, 4, Len(data)))

\* BASE64.encode: three bytes make four characters, a last group of one or
\* two bytes is padded with '='.
RECURSIVE BASE64_encode(_)
BASE64_encode(data) ==
    IF Len(data) = 0 THEN <<>>
    ELSE IF Len(data) = 1
    THEN <<Symbol(data[1] \div 4), Symbol((data[1] % 4) * 16), "=", "=">>
    ELSE IF Len(data) = 2
    THEN <<Symbol(data[1] \div 4),
           Symbol((data[1] % 4) * 16 + data[2] \div 16),
           Symbol((data[2] % 16) * 4), "=">>
    ELSE <<Symbol(data[1] \div 4),
           Symbol((data[1] % 4) * 16 + data[2] \div 16),
           Symbol((data[2] % 16) * 4 + data[3] \div 64),
           Symbol(data[3] % 64)>>
         \o BASE64_encode(SubSeq(data, 4, Len(data)))

\* The '=' characters at the end of a text.
RECURSIVE Padding(_)
Padding(text) ==
    IF Len(text) > 0 /\ text[Len(text)] = "="
    THEN 1 + Padding(SubSeq(text, 1, Len(text) - 1)) ELSE 0

\* The bytes of a run of sextets: four make three bytes, a last group of
\* three makes two, of two makes one.
RECURSIVE BytesOf(_)
BytesOf(s) ==
    IF Len(s) < 2 THEN <<>>
    ELSE IF Len(s) = 2 THEN <<s[1] * 4 + s[2] \div 16>>
    ELSE IF Len(s) = 3
    THEN <<s[1] * 4 + s[2] \div 16, (s[2] % 16) * 16 + s[3] \div 4>>
    ELSE <<s[1] * 4 + s[2] \div 16, (s[2] % 16) * 16 + s[3] \div 4,
           (s[3] % 4) * 64 + s[4]>>
         \o BytesOf(SubSeq(s, 5, Len(s)))

\* BASE64.decode(..).ok(): None unless the text is a multiple of four long,
\* padded with at most two '=' at the end only, made of alphabet characters,
\* and without set bits past the last byte.
BASE64_decode(text) ==
    LET pad == Padding(text)
        body == SubSeq(text, 1, Len(text) - pad)
        sextets == [i \in 1..Len(body) |-> Sextet(body[i])]
        last == sextets[Len(body)]
    IN  IF /\ Len(text) % 4 = 0
           /\ pad <= 2
           /\ \A i \in 1..Len(body) : InAlphabet(body[i])
           /\ pad = 1 => last % 4 = 0
           /\ pad = 2 => last % 16 = 0
        THEN [some |-> TRUE, bytes |-> BytesOf(sextets)]
        ELSE NoBytes

\* ClientMessage::input, lines 27-31.
ClientMessage_input(data) ==
    [side |-> "client", type |-> "input", data |-> BASE64_encode(data)]

\* ServerMessage::output, lines 63-67.
ServerMessage_output(data) ==
    [side |-> "server", type |-> "output", data |-> BASE64_encode(data)]

\* ClientMessage::decode_input, lines 35-41.
decode_input(msg) ==
    IF msg.type = "input" THEN BASE64_decode(msg.data) ELSE NoBytes

\* ServerMessage::decode_output, lines 71-77.
decode_output(msg) ==
    IF msg.type = "output" THEN BASE64_decode(msg.data) ELSE NoBytes

\* serde_json writes a string between quotes, with '"' and '\' escaped.
RECURSIVE Escaped(_)
Escaped(text) ==
    IF Len(text) = 0 THEN <<>>
    ELSE (IF text[1] \in {"\"", "\\"} THEN <<"\\", text[1]>> ELSE <<text[1]>>)
         \o Escaped(SubSeq(text, 2, Len(text)))

\* The text up to the closing quote, escapes undone; the second field is
\* what follows the closing quote.
RECURSIVE Unescaped(_)
Unescaped(text) ==
    IF Len(text) = 0 THEN [ok |-> FALSE, value |-> <<>>, rest |-> <<>>]
    ELSE IF text[1] = "\""
    THEN [ok |-> TRUE, value |-> <<>>, rest |-> SubSeq(text, 2, Len(text))]
    ELSE IF text[1] = "\\"
    THEN IF Len(text) < 2 THEN [ok |-> FALSE, value |-> <<>>, rest |-> <<>>]
         ELSE LET r == Unescaped(SubSeq(text, 3, Len(text)))
              IN  [r EXCEPT !.value = <<text[2]>> \o @]
    ELSE LET r == Unescaped(SubSeq(text, 2, Len(text)))
         IN  [r EXCEPT !.value = <<text[1]>> \o @]

\* {"type":"input","data":"  and  {"type":"output","data":"
InputHead ==
    <<"{", "\"", "t", "y", "p", "e", "\"", ":", "\"", "i", "n", "p", "u", "t", "\"", ",",
      "\"", "d", "a", "t", "a", "\"", ":", "\"">>

OutputHead ==
    <<"{", "\"", "t", "y", "p", "e", "\"", ":", "\"", "o", "u", "t", "p", "u", "t", "\"", ",",
      "\"", "d", "a", "t", "a", "\"", ":", "\"">>

\* serde_json::to_string of an Input or Output message: the tag first, then
\* the data field.
to_string(msg) ==
    (IF msg.type = "input" THEN InputHead ELSE OutputHead)
        \o Escaped(msg.data) \o <<"\"", "}">>

HasHead(text, head) ==
    Len(text) >= Len(head) /\ SubSeq(text, 1, Len(head)) = head

\* serde_json::from_str::<ClientMessage> or ::<ServerMessage> of such a
\* text: the tag must name a variant of the enum asked for.
from_str(side, text) ==
    LET head == IF side = "client" THEN InputHead ELSE OutputHead
        r == Unescaped(SubSeq(text, Len(head) + 1, Len(text)))
    IN  IF HasHead(text, head) /\ r.ok /\ r.rest = <<"}">>
        THEN [side |-> side, type |-> IF side = "client" THEN "input" ELSE "output",
              data |-> r.value]
        ELSE [side |-> side, type |-> "error", data |-> <<>>]

\* A byte string is at hand.
InitWire ==
    /\ StoreInit /\ PeerInit /\ SessInit
    /\ WsIdle
    /\ CmdIdle
    /\ PathIdle
    /\ FwdIdle
    /\ OutIdle
    /\ wire_pc = "bytes"
    /\ wire_bytes \in ByteStrings
    /\ wire_msg = NoWireMsg
    /\ wire_json = <<>>
    /\ wire_decoded = NoBytes

WireInput ==
    /\ wire_pc = "bytes"
    /\ wire_msg' = ClientMessage_input(wire_bytes)
    /\ wire_pc' = "message"
    /\ UNCHANGED <<outsideWire, wire_bytes, wire_json, wire_decoded>>

WireOutput ==
    /\ wire_pc = "bytes"
    /\ wire_msg' = ServerMessage_output(wire_bytes)
    /\ wire_pc' = "message"
    /\ UNCHANGED <<outsideWire, wire_bytes, wire_json, wire_decoded>>

WireSerialize ==
    /\ wire_pc = "message"
    /\ wire_json' = to_string(wire_msg)
    /\ wire_msg' = NoWireMsg
    /\ wire_pc' = "json"
    /\ UNCHANGED <<outsideWire, wire_bytes, wire_decoded>>

\* The receiving side parses the text as its enum; a text of the other
\* enum is an error, and there is no message.
WireParse(side) ==
    /\ wire_pc = "json"
    /\ wire_msg' = from_str(side, wire_json)
    /\ wire_pc' = IF from_str(side, wire_json).type = "error" THEN "failed" ELSE "parsed"
    /\ UNCHANGED <<outsideWire, wire_bytes, wire_json, wire_decoded>>

WireDecode ==
    /\ wire_pc \in {"message", "parsed"}
    /\ wire_decoded' = IF wire_msg.side = "client"
                       THEN decode_input(wire_msg) ELSE decode_output(wire_msg)
    /\ wire_pc' = "decoded"
    /\ UNCHANGED <<outsideWire, wire_bytes, wire_msg, wire_json>>

NextWire ==
    \/ WireInput
    \/ WireOutput
    \/ WireSerialize
    \/ \E side \in {"client", "server"} : WireParse(side)
    \/ WireDecode

SpecWire == InitWire /\ [][NextWire]_vars

(***************************************************************************)
(* The WebSocket transport (transport/websocket.rs): handle_socket, its    *)
(* receive loop and the task that forwards its replies to the client.      *)
(***************************************************************************)
\* Number of frames the client sends on one connection.
MaxFrames == 3

\* What a text frame holds: three messages of the protocol, a JSON object
\* whose type names no ClientMessage, and text that is not JSON.
TextBodies == {"ping", "input", "start_session", "unknown_type", "not_json"}

\* What receiver.next() may yield: text and binary frames, a close frame,
\* any other frame (a WebSocket ping), an error, and the end of the stream.
WsFrames ==
    {[kind |-> "text", body |-> b] : b \in TextBodies}
        \cup {[kind |-> "binary", body |-> "ping"], [kind |-> "binary", body |-> "not_utf8"],
              [kind |-> "close", body |-> ""], [kind |-> "other", body |-> ""],
              [kind |-> "error", body |-> ""], [kind |-> "end", body |-> ""]}

\* Lines 71, 80, 82-85: the frames at which the receive loop ends.
Terminates(frame) == frame.kind \in {"close", "error", "end"}

\* Lines 73-79: the text of a frame, if it has one.
frame_text(frame) ==
    IF frame.kind = "text" THEN [some |-> TRUE, text |-> frame.body]
    ELSE IF frame.kind = "binary" /\ frame.body # "not_utf8"
    THEN [some |-> TRUE, text |-> frame.body]
    ELSE [some |-> FALSE, text |-> ""]

\* Line 88: serde_json::from_str::<ClientMessage>.
client_message(text) ==
    CASE text = "ping" -> [ok |-> TRUE, msg |-> "Ping", error |-> ""]
      [] text = "input" -> [ok |-> TRUE, msg |-> "Input", error |-> ""]
      [] text = "start_session" -> [ok |-> TRUE, msg |-> "StartSession", error |-> ""]
      [] text = "unknown_type" -> [ok |-> FALSE, msg |-> "", error |-> "unknown variant"]
      [] OTHER -> [ok |-> FALSE, msg |-> "", error |-> "expected value"]

\* Lines 90-121: what the receive loop hands to tx.send for a text.
replies(text) ==
    LET parsed == client_message(text)
    IN  IF ~parsed.ok
        THEN <<[tag |-> "Error", field |-> "Invalid message: " \o parsed.error]>>
        ELSE IF parsed.msg = "Ping" THEN <<[tag |-> "Pong", field |-> ""]>>
        ELSE IF parsed.msg = "StartSession"
        THEN <<[tag |-> "SessionStarted", field |-> "placeholder"]>>
        ELSE <<>>

\* Lines 57-64: the text frame of a ServerMessage (serde tag = "type",
\* snake_case).
server_frame(msg) ==
    CASE msg.tag = "Error" -> [type |-> "error", message |-> msg.field]
      [] msg.tag = "Pong" -> [type |-> "pong"]
      [] OTHER -> [type |-> "session_started", session_id |-> msg.field]

\* Line 95: after the error reply the loop goes on.
\* Mutant: the loop ends, the connection is closed.
AfterInvalidBreak == "ended"

AfterInvalid == "receiving"

\* The client sends a frame; after a close frame, an error or the end of
\* the stream nothing follows.
WsClientSend(frame) ==
    /\ Len(ws_recv) + Len(ws_in) < MaxFrames
    /\ \A i \in 1..Len(ws_in) : ~Terminates(ws_in[i])
    /\ \A i \in 1..Len(ws_recv) : ~Terminates(ws_recv[i])
    /\ ws_in' = Append(ws_in, frame)
    /\ UNCHANGED <<outsideWs, ws_recv, ws_pc, ws_rx, ws_queued, ws_out, ws_send>>

\* Lines 71-124: one turn of the receive loop; when the loop ends the send
\* task is aborted with what is still in its channel.  A tx.send to a send
\* task that has ended fails and is ignored.
WsReceive ==
    /\ ws_pc = "receiving"
    /\ Len(ws_in) > 0
    /\ LET frame == Head(ws_in)
           text == frame_text(frame)
           out == IF text.some THEN replies(text.text) ELSE <<>>
       IN  /\ ws_recv' = Append(ws_recv, frame)
           /\ ws_in' = Tail(ws_in)
           /\ ws_queued' = ws_queued \o out
           /\ ws_rx' = IF ws_send = "running" THEN ws_rx \o out ELSE ws_rx
           /\ ws_pc' = IF Terminates(frame) THEN "ended"
                       ELSE IF text.some /\ ~client_message(text.text).ok THEN AfterInvalid
                       ELSE "receiving"
           /\ ws_send' = IF Terminates(frame) /\ ws_send = "running" THEN "aborted"
                         ELSE ws_send
    /\ UNCHANGED <<outsideWs, ws_out>>

\* Lines 56-67: the send task takes a message from the channel and sends its
\* frame; when the send fails the task ends.
WsForward(ok) ==
    /\ ws_send = "running"
    /\ Len(ws_rx) > 0
    /\ ws_rx' = Tail(ws_rx)
    /\ IF ok
       THEN /\ ws_out' = Append(ws_out, server_frame(Head(ws_rx)))
            /\ ws_send' = ws_send
       ELSE /\ ws_out' = ws_out
            /\ ws_send' = "ended"
    /\ UNCHANGED <<outsideWs, ws_in, ws_recv, ws_pc, ws_queued>>

NextWs ==
    \/ \E frame \in WsFrames : WsClientSend(frame)
    \/ WsReceive
    \/ \E ok \in BOOLEAN : WsForward(ok)

SpecWs == Init /\ [][NextWs]_vars

(***************************************************************************)
(* CommandBuilder (executor/command.rs).  A string is a sequence of        *)
(* one-character strings.                                                  *)
(***************************************************************************)
\* The longest base template, and the longest parameter list.
MaxBase == 3
MaxParams == 2

\* The characters of a base template: a letter, a blank, a single quote.
BaseChars == {"a", " ", "'"}

Bases == UNION {[1..n -> BaseChars] : n \in 0..MaxBase}

\* The strings given as parameters and as additional args.
Words == {<<"p">>, <<"q">>}

\* shlex::split: blanks separate words, single quotes keep what is between
\* them, a quote that is not closed makes the split fail.
RECURSIVE shlex_words(_, _, _, _, _)
shlex_words(input, word, in_word, in_quote, words) ==
    IF Len(input) = 0
    THEN IF in_quote THEN [some |-> FALSE, parts |-> <<>>]
         ELSE [some |-> TRUE, parts |-> IF in_word THEN Append(words, word) ELSE words]
    ELSE LET ch == Head(input)
             rest == Tail(input)
         IN  IF in_quote
             THEN IF ch = "'" THEN shlex_words(rest, word, TRUE, FALSE, words)
                  ELSE shlex_words(rest, Append(word, ch), TRUE, TRUE, words)
             ELSE IF ch = "'" THEN shlex_words(rest, word, TRUE, TRUE, words)
             ELSE IF ch = " "
             THEN IF in_word THEN shlex_words(rest, <<>>, FALSE, FALSE, Append(words, word))
                  ELSE shlex_words(rest, <<>>, FALSE, FALSE, words)
             ELSE shlex_words(rest, Append(word, ch), TRUE, FALSE, words)

shlex_split(input) == shlex_words(input, <<>>, FALSE, FALSE, <<>>)

\* winsplit::split: blanks separate words, a single quote is a character
\* like any other; the split never fails.
RECURSIVE winsplit_words(_, _, _)
winsplit_words(input, word, words) ==
    IF Len(input) = 0
    THEN IF Len(word) > 0 THEN Append(words, word) ELSE words
    ELSE IF Head(input) = " "
    THEN winsplit_words(Tail(input), <<>>, IF Len(word) > 0 THEN Append(words, word) ELSE words)
    ELSE winsplit_words(Tail(input), Append(word, Head(input)), words)

winsplit_split(input) == [some |-> TRUE, parts |-> winsplit_words(input, <<>>, <<>>)]

\* split_command_line, lines 134-149.
split_command_line(input, windows) ==
    IF windows
    THEN IF Len(winsplit_split(input).parts) = 0
         THEN [ok |-> FALSE, error |-> "EmptyCommand", parts |-> <<>>]
         ELSE [ok |-> TRUE, error |-> "", parts |-> winsplit_split(input).parts]
    ELSE IF shlex_split(input).some
         THEN [ok |-> TRUE, error |-> "", parts |-> shlex_split(input).parts]
         ELSE [ok |-> FALSE, error |-> "InvalidBase", parts |-> <<>>]

\* build, lines 116-131.
build(base, params, additional_args, windows) ==
    LET base_parts == split_command_line(base, windows)
        parts == base_parts.parts \o (IF params.some THEN params.list ELSE <<>>)
                     \o additional_args
    IN  IF ~base_parts.ok
        THEN [NoBuild EXCEPT !.called = TRUE, !.extra = additional_args,
                             !.error = base_parts.error]
        ELSE IF Len(parts) = 0
        THEN [NoBuild EXCEPT !.called = TRUE, !.extra = additional_args,
                             !.error = "EmptyCommand"]
        ELSE [called |-> TRUE, extra |-> additional_args, ok |-> TRUE, error |-> "",
              program |-> Head(parts), args |-> Tail(parts)]

\* A builder as new, override_base and params leave it, on either build.
InitCmd ==
    /\ StoreInit /\ PeerInit /\ SessInit
    /\ WireIdle
    /\ WsIdle
    /\ PathIdle
    /\ FwdIdle
    /\ OutIdle
    /\ cmd_base \in Bases
    /\ cmd_params \in {NoParams, [some |-> TRUE, list |-> <<>>]}
    /\ cmd_windows \in BOOLEAN
    /\ cmd_result = NoBuild

\* extend_params, lines 87-98: a builder with more parameters.
extend_params(more) ==
    /\ Len(cmd_params.list) + Len(more) <= MaxParams
    /\ cmd_params' = [some |-> TRUE, list |-> cmd_params.list \o more]
    /\ cmd_result' = NoBuild
    /\ UNCHANGED <<outsideCmd, cmd_base, cmd_windows>>

\* build_initial and build_follow_up, lines 104-114.
Build(additional_args) ==
    /\ cmd_result' = build(cmd_base, cmd_params, additional_args, cmd_windows)
    /\ UNCHANGED <<outsideCmd, cmd_base, cmd_params, cmd_windows>>

NextCmd ==
    \/ \E more \in {<<w>> : w \in Words} : extend_params(more)
    \/ \E extra \in {<<>>} \cup {<<w>> : w \in Words} : Build(extra)

SpecCmd == InitCmd /\ [][NextCmd]_vars

(***************************************************************************)
(* resolve_executable_path and refresh_path (pty/shell.rs).  PATH is a     *)
(* list of directories; an executable is found when its directory is on    *)
(* PATH.                                                                   *)
(***************************************************************************)
\* Number of resolve_executable_path calls in one behaviour.
MaxResolves == 3

\* The executables asked for and where they are installed ("" nowhere).
Executables == {"ls", "claude", "ghost", " "}

InstalledIn(executable) ==
    CASE executable = "ls" -> "/bin"
      [] executable = "claude" -> "/opt"
      [] OTHER -> ""

\* What get_fresh_path may return, a login shell's PATH: nothing (no shell
\* answered in time), or the PATH of the shells that did answer.
FreshPaths ==
    {[some |-> FALSE, path |-> <<>>],
     [some |-> TRUE, path |-> <<"/bin">>],
     [some |-> TRUE, path |-> <<"/bin", "/usr">>],
     [some |-> TRUE, path |-> <<"/bin", "/usr", "/opt">>]}

\* which::which on the PATH of the process.
which(executable, path) ==
    \E i \in 1..Len(path) : path[i] = InstalledIn(executable)

\* merge_paths, lines 80-91: both lists, without empty entries and without
\* an entry that came before.
RECURSIVE Dedup(_, _)
Dedup(entries, merged) ==
    IF Len(entries) = 0 THEN merged
    ELSE IF Head(entries) # "" /\ \A i \in 1..Len(merged) : merged[i] # Head(entries)
    THEN Dedup(Tail(entries), Append(merged, Head(entries)))
    ELSE Dedup(Tail(entries), merged)

merge_paths(primary, secondary) == Dedup(primary \o secondary, <<>>)

Returns(c, result) ==
    path_callers' = [path_callers EXCEPT ![c] = [NotResolving EXCEPT !.result = result]]

\* resolve_executable_path, lines 50-57: an empty name, or up to which.
resolve_executable_path(c, executable) ==
    /\ path_callers[c].pc = "idle"
    /\ path_calls < MaxResolves
    /\ path_calls' = path_calls + 1
    /\ IF executable = " "
       THEN Returns(c, "None")
       ELSE path_callers' = [path_callers EXCEPT ![c] =
                [NotResolving EXCEPT !.pc = "which", !.executable = executable]]
    /\ UNCHANGED <<outsidePath, path_env, path_sets>>

\* Lines 59-61: which_async on the current PATH.
WhichFirst(c) ==
    /\ path_callers[c].pc = "which"
    /\ IF which(path_callers[c].executable, path_env)
       THEN Returns(c, "Some")
       ELSE path_callers' = [path_callers EXCEPT ![c].pc = "get_fresh_path"]
    /\ UNCHANGED <<outsidePath, path_env, path_sets, path_calls>>

\* refresh_path, lines 94-96: the login shells have answered, or not.
GetFreshPath(c, fresh) ==
    /\ path_callers[c].pc = "get_fresh_path"
    /\ IF fresh.some
       THEN path_callers' = [path_callers EXCEPT ![c].pc = "var_os",
                                                 ![c].refreshed = fresh.path]
       ELSE Returns(c, "None")
    /\ UNCHANGED <<outsidePath, path_env, path_sets, path_calls>>

\* refresh_path, lines 97-102: PATH is read and merged.
ReadPath(c) ==
    /\ path_callers[c].pc = "var_os"
    /\ LET merged == merge_paths(path_env, path_callers[c].refreshed)
       IN  IF merged = path_env
           THEN Returns(c, "None")
           ELSE path_callers' = [path_callers EXCEPT ![c].pc = "set_var",
                                                     ![c].merged = merged]
    /\ UNCHANGED <<outsidePath, path_env, path_sets, path_calls>>

\* refresh_path, lines 105-108: PATH is written.
SetPath(c) ==
    /\ path_callers[c].pc = "set_var"
    /\ path_env' = path_callers[c].merged
    /\ path_sets' = path_sets + 1
    /\ path_callers' = [path_callers EXCEPT ![c].pc = "which_again"]
    /\ UNCHANGED <<outsidePath, path_calls>>

\* Lines 63-69: which_async on the refreshed PATH.
WhichAgain(c) ==
    /\ path_callers[c].pc = "which_again"
    /\ Returns(c, IF which(path_callers[c].executable, path_env) THEN "Some" ELSE "None")
    /\ UNCHANGED <<outsidePath, path_env, path_sets, path_calls>>

NextPath ==
    \/ \E c \in Callers, executable \in Executables : resolve_executable_path(c, executable)
    \/ \E c \in Callers : WhichFirst(c)
    \/ \E c \in Callers, fresh \in FreshPaths : GetFreshPath(c, fresh)
    \/ \E c \in Callers : ReadPath(c)
    \/ \E c \in Callers : SetPath(c)
    \/ \E c \in Callers : WhichAgain(c)

SpecPath == Init /\ [][NextPath]_vars

(***************************************************************************)
(* spawn_forwarder (msg_store.rs, lines 177-192) and its source stream.    *)
(***************************************************************************)
\* Number of items the source stream yields.
MaxItems == 3

\* Length of "stream error: " (14 in the source), scaled down like the costs.
STREAM_ERROR_LEN == 2

\* The items of the source: Ok(LogMsg) of three kinds, and Err(e) with the
\* Display text of e and its length.
Items ==
    {[ok |-> TRUE, kind |-> "Stdout", text |-> "out", len |-> 1],
     [ok |-> TRUE, kind |-> "Stderr", text |-> "warn", len |-> 1],
     [ok |-> TRUE, kind |-> "Finished", text |-> "", len |-> 0],
     [ok |-> FALSE, kind |-> "", text |-> "boom", len |-> 1]}

\* Lines 186-189: the LogMsg pushed for an item.
forwarded(item) ==
    IF item.ok THEN [kind |-> item.kind, text |-> item.text, len |-> item.len]
    ELSE [kind |-> "Stderr", text |-> "stream error: " \o item.text,
          len |-> STREAM_ERROR_LEN + item.len]

\* Line 185: after an item the loop asks the stream for the next one.
\* Mutant: the task gives up at an error item.
AfterItemStopAtErr(item) == IF item.ok THEN "next" ELSE "finished"

AfterItem(item) == "next"

\* The source yields an item, or ends.
SourceYield(item) ==
    /\ ~fwd_ended
    /\ Len(fwd_items) < MaxItems
    /\ fwd_stream' = Append(fwd_stream, item)
    /\ fwd_items' = Append(fwd_items, item)
    /\ UNCHANGED <<outsideFwd, fwd_pc, fwd_ended, fwd_msg>>

SourceEnd ==
    /\ ~fwd_ended
    /\ fwd_ended' = TRUE
    /\ UNCHANGED <<outsideFwd, fwd_pc, fwd_stream, fwd_items, fwd_msg>>

\* Lines 177-183: the task is spawned.
spawn_forwarder ==
    /\ fwd_pc = "none"
    /\ fwd_pc' = "next"
    /\ UNCHANGED <<outsideFwd, fwd_stream, fwd_ended, fwd_items, fwd_msg>>

\* Lines 185-189 and push, line 59: the next item is taken and its message
\* is sent to the live listeners.
ForwardSend ==
    /\ fwd_pc = "next"
    /\ Len(fwd_stream) > 0
    /\ LET m == forwarded(Head(fwd_stream))
           msg == [id |-> Len(sender) + 1, kind |-> m.kind, len |-> m.len, text |-> m.text]
       IN  /\ sender' = Append(sender, msg)
           /\ fwd_msg' = msg
    /\ fwd_stream' = Tail(fwd_stream)
    /\ fwd_pc' = "append"
    /\ UNCHANGED <<history, total_bytes, pushing, appended, receivers, streams, outsideStoreFwd,
                   fwd_ended, fwd_items>>

\* push, lines 60-72: the message is appended to the history, and the loop
\* comes round.
ForwardAppend ==
    /\ fwd_pc = "append"
    /\ LET inner == PushInner(history, total_bytes, fwd_msg)
       IN  /\ history' = inner.history
           /\ total_bytes' = inner.total_bytes
           /\ appended' = Append(appended, [msg |-> fwd_msg, bytes |-> approx_bytes(fwd_msg)])
    /\ fwd_pc' = AfterItem(fwd_items[Len(fwd_items) - Len(fwd_stream)])
    /\ fwd_msg' = NoMsg
    /\ UNCHANGED <<sender, pushing, receivers, streams, outsideStoreFwd, fwd_stream, fwd_ended,
                   fwd_items>>

\* Line 185: the stream has ended, the task finishes.
ForwardEnd ==
    /\ fwd_pc = "next"
    /\ Len(fwd_stream) = 0
    /\ fwd_ended
    /\ fwd_pc' = "finished"
    /\ UNCHANGED <<outsideFwd, fwd_stream, fwd_ended, fwd_items, fwd_msg>>

NextFwd ==
    \/ \E item \in Items : SourceYield(item)
    \/ SourceEnd
    \/ spawn_forwarder
    \/ ForwardSend
    \/ ForwardAppend
    \/ ForwardEnd

SpecFwd == Init /\ [][NextFwd]_vars

(***************************************************************************)
(* send_json and its callers (protocol.rs, lines 99-103, 160-228): the     *)
(* bytes on the child's stdin.                                             *)
(***************************************************************************)
\* Number of send_json calls of a run.
MaxSends == 3

\* The content of a user message: text, with or without a line feed in it.
Contents == {<<"a">>, <<"\n">>}

\* What the reader task sends: a control response (lines 160-183) or the
\* interrupt request (line 100).
ReaderFrames ==
    {[type |-> "control_response", content |-> <<>>],
     [type |-> "interrupt", content |-> <<>>]}

\* What a caller sends: send_user_message, initialize, set_permission_mode.
CallerFrames ==
    {[type |-> "user", content |-> c] : c \in Contents}
        \cup {[type |-> "initialize", content |-> <<>>],
              [type |-> "set_permission_mode", content |-> <<>>]}

\* serde_json writes a line feed inside a string as the two characters \n.
RECURSIVE EscapedLine(_)
EscapedLine(text) ==
    IF Len(text) = 0 THEN <<>>
    ELSE (IF text[1] = "\n" THEN <<"\\", "n">> ELSE Escaped(<<text[1]>>))
         \o EscapedLine(SubSeq(text, 2, Len(text)))

\* One letter for the fields that name the kind of frame.
Tag(type) ==
    CASE type = "control_response" -> "r"
      [] type = "interrupt" -> "i"
      [] type = "user" -> "u"
      [] type = "initialize" -> "n"
      [] OTHER -> "m"

\* Line 186: serde_json::to_string of the frame, one object on one line.
frame_json(frame) ==
    <<"{", Tag(frame.type)>>
        \o (IF frame.type = "user"
            THEN <<"\"">> \o EscapedLine(frame.content) \o <<"\"">>
            ELSE <<>>)
        \o <<"}">>

\* Line 187: the mutex of stdin can be taken.
\* Mutant: stdin is shared without a mutex.
LockNotNeeded == out_lock \in Writers \cup {"none"}

LockFree == out_lock = "none"

\* Lines 198-228 and 99-103, 160-183, then line 186: a task calls send_json
\* with a frame, which is serialized.  The interrupt receiver is fused: it
\* resolves once.
SendJson(w, frame) ==
    /\ out_pc[w] = "idle"
    /\ out_calls < MaxSends
    /\ frame \in (IF w = "reader" THEN ReaderFrames ELSE CallerFrames)
    /\ frame.type = "interrupt" => ~out_fused
    /\ out_fused' = (out_fused \/ frame.type = "interrupt")
    /\ out_json' = [out_json EXCEPT ![w] = frame_json(frame)]
    /\ out_pc' = [out_pc EXCEPT ![w] = "lock"]
    /\ out_calls' = out_calls + 1
    /\ UNCHANGED <<outsideOut, out_off, out_lock, out_stdin, out_broken>>

\* Line 187: self.stdin.lock().await.
StdinLock(w) ==
    /\ out_pc[w] = "lock"
    /\ LockFree
    /\ out_lock' = w
    /\ out_pc' = [out_pc EXCEPT ![w] = "write_json"]
    /\ UNCHANGED <<outsideOut, out_json, out_off, out_stdin, out_calls, out_broken, out_fused>>

\* Line 188: write_all writes the frame in one or more writes of the pipe;
\* the task can be suspended between two of them.
WriteAll(w, n) ==
    /\ out_pc[w] = "write_json"
    /\ ~out_broken
    /\ n \in 1..(Len(out_json[w]) - out_off[w])
    /\ out_stdin' = out_stdin \o SubSeq(out_json[w], out_off[w] + 1, out_off[w] + n)
    /\ out_off' = [out_off EXCEPT ![w] = @ + n]
    /\ out_pc' = [out_pc EXCEPT
           ![w] = IF out_off[w] + n = Len(out_json[w]) THEN "write_newline" ELSE @]
    /\ UNCHANGED <<outsideOut, out_json, out_lock, out_calls, out_broken, out_fused>>

\* Line 189: the line feed.
WriteNewline(w) ==
    /\ out_pc[w] = "write_newline"
    /\ ~out_broken
    /\ out_stdin' = Append(out_stdin, "\n")
    /\ out_pc' = [out_pc EXCEPT ![w] = "flush"]
    /\ UNCHANGED <<outsideOut, out_json, out_off, out_lock, out_calls, out_broken, out_fused>>

\* Lines 190-192: flush, then send_json returns and the guard is dropped.
Flush(w) ==
    /\ out_pc[w] = "flush"
    /\ out_pc' = [out_pc EXCEPT ![w] = "idle"]
    /\ out_json' = [out_json EXCEPT ![w] = <<>>]
    /\ out_off' = [out_off EXCEPT ![w] = 0]
    /\ out_lock' = "none"
    /\ UNCHANGED <<outsideOut, out_stdin, out_calls, out_broken, out_fused>>

\* Lines 188-189, the ? operator: a write to the closed pipe fails, send_json
\* returns the error and the guard is dropped.
WriteFails(w) ==
    /\ out_pc[w] \in {"write_json", "write_newline"}
    /\ out_broken
    /\ out_pc' = [out_pc EXCEPT ![w] = "idle"]
    /\ out_json' = [out_json EXCEPT ![w] = <<>>]
    /\ out_off' = [out_off EXCEPT ![w] = 0]
    /\ out_lock' = "none"
    /\ UNCHANGED <<outsideOut, out_stdin, out_calls, out_broken, out_fused>>

\* The child closes its stdin, or exits.
ChildClosesStdin ==
    /\ ~out_broken
    /\ out_broken' = TRUE
    /\ UNCHANGED <<outsideOut, out_pc, out_json, out_off, out_lock, out_stdin, out_calls,
                   out_fused>>

NextOut ==
    \/ \E w \in Writers : \E frame \in ReaderFrames \cup CallerFrames : SendJson(w, frame)
    \/ \E w \in Writers : StdinLock(w)
    \/ \E w \in Writers : \E n \in 1..7 : WriteAll(w, n)
    \/ \E w \in Writers : WriteNewline(w)
    \/ \E w \in Writers : Flush(w)
    \/ \E w \in Writers : WriteFails(w)
    \/ ChildClosesStdin

SpecOut == Init /\ [][NextOut]_vars

(***************************************************************************)
(* The history and its byte accounting (under Spec).                       *)
(***************************************************************************)
RECURSIVE SumBytes(_)
SumBytes(h) == IF Len(h) = 0 THEN 0 ELSE Head(h).bytes + SumBytes(Tail(h))

\* The last k entries of h.
LastK(h, k) == SubSeq(h, Len(h) - k + 1, Len(h))

\* The longest suffix of h whose total cost is within the budget.
LongestSuffixWithinBudget(h) ==
    LET fits == {k \in 0..Len(h) : SumBytes(LastK(h, k)) <= HISTORY_BYTES}
    IN  LastK(h, CHOOSE k \in fits : \A j \in fits : j <= k)

NoPushInFlight == \A p \in Pushers : pushing[p] = NoMsg

Oversize(stored) == stored.bytes > HISTORY_BYTES

\* C3 as stated: once every push has returned, total_bytes is at most the
\* history budget.
C3_TotalWithinBudget == NoPushInFlight => total_bytes <= HISTORY_BYTES

\* C3 amended: total_bytes is at most the history budget, unless the history
\* holds exactly one message, whose cost alone exceeds the budget.
C3_TotalWithinBudgetUnlessOversize ==
    \/ total_bytes <= HISTORY_BYTES
    \/ Len(history) = 1 /\ Oversize(history[1])

\* A push has evicted entries and left two or more, filling the budget.
C3_Witness ==
    /\ NoPushInFlight
    /\ Len(history) >= 2
    /\ Len(appended) > Len(history)
    /\ total_bytes = HISTORY_BYTES

\* C4: total_bytes equals the sum of the stored costs of the entries in the
\* history.
C4_TotalIsSumOfCosts == total_bytes = SumBytes(history)

\* Pushes of different costs have returned, some entries evicted.
C4_Witness ==
    /\ NoPushInFlight
    /\ Len(appended) > Len(history)
    /\ \E i, j \in 1..Len(history) : history[i].bytes # history[j].bytes

\* C5: push never rejects a message (the newest entry of the history is the
\* message pushed last), and a message whose cost alone exceeds the budget is
\* afterwards the only entry.
C5_OversizeRetainedAlone ==
    Len(appended) > 0 =>
        /\ Len(history) > 0
        /\ history[Len(history)] = appended[Len(appended)]
        /\ Oversize(appended[Len(appended)]) => history = <<appended[Len(appended)]>>

\* An oversize message was pushed onto a non-empty history and is retained alone.
C5_Witness ==
    /\ Len(appended) >= 2
    /\ Oversize(appended[Len(appended)])
    /\ Len(history) = 1

\* C6 as stated: the history is the longest suffix of the push sequence whose
\* total cost is within the budget.
C6_LongestSuffix == history = LongestSuffixWithinBudget(appended)

\* C6 amended: the history is the longest suffix of the push sequence whose
\* total cost is within the budget, or, when the newest message alone exceeds
\* the budget, exactly that message; with equal costs c <= budget, once more
\* than budget \div c were pushed, exactly the last budget \div c are retained.
C6_LongestSuffixOrOversize ==
    /\ Len(appended) > 0 =>
          history = IF Oversize(appended[Len(appended)])
                    THEN <<appended[Len(appended)]>>
                    ELSE LongestSuffixWithinBudget(appended)
    /\ \A c \in 1..HISTORY_BYTES :
          (/\ \A i \in 1..Len(appended) : appended[i].bytes = c
           /\ Len(appended) > HISTORY_BYTES \div c)
              => history = LastK(appended, HISTORY_BYTES \div c)

\* More equal-cost messages than fit were pushed; the oldest has been evicted.
C6_Witness ==
    /\ NoPushInFlight
    /\ Len(appended) > HISTORY_BYTES
    /\ \A i \in 1..Len(appended) : appended[i].bytes = 1
    /\ Len(history) = HISTORY_BYTES

(***************************************************************************)
(* Live receivers (under SpecRecv).                                        *)
(***************************************************************************)
RECURSIVE OkItems(_)
OkItems(got) ==
    IF Len(got) = 0 THEN <<>>
    ELSE IF Head(got).kind = "Lagged" THEN OkItems(Tail(got))
         ELSE <<Head(got)>> \o OkItems(Tail(got))

Lagged(got) == \E i \in 1..Len(got) : got[i].kind = "Lagged"

\* C8 as stated: what a receiver made at time t has received, lag notifications
\* removed, is the run of the push order that starts at the first push after t
\* (it receives every message pushed after t).
C8_ReceivesEveryPushAfter ==
    \A r \in Receivers :
        receivers[r].state = "live" =>
            LET ok == OkItems(receivers[r].got)
            IN  ok = SubSeq(sender, receivers[r].start + 1, receivers[r].start + Len(ok))

\* C8 amended: a receiver made at time t that has not overflowed its mailbox
\* has received the run of the push order that starts at the first push after
\* t; one that has overflowed has received messages pushed after t in push
\* order, and misses exactly the messages its lag notifications count.
C8_ReceivesEveryPushAfterUnlessLagged ==
    \A r \in Receivers :
        receivers[r].state = "live" =>
            LET got == receivers[r].got
                ok == OkItems(got)
                \* the position in the push order reached after got[1..i]
                reached[i \in 0..Len(got)] ==
                    IF i = 0 THEN receivers[r].start
                    ELSE IF got[i].kind = "Lagged" THEN reached[i - 1] + got[i].len
                         ELSE reached[i - 1] + 1
            IN  /\ ~Lagged(got) =>
                      ok = SubSeq(sender, receivers[r].start + 1, receivers[r].start + Len(ok))
                /\ \A i \in 1..Len(got) :
                      /\ got[i].kind # "Lagged" => got[i] = sender[reached[i]]
                      /\ got[i].kind = "Lagged" => got[i].len > 0
                /\ reached[Len(got)] = receivers[r].next

\* A receiver made after a first push has received the two later messages.
C8_Witness ==
    \E r \in Receivers :
        /\ receivers[r].state = "live"
        /\ receivers[r].start >= 1
        /\ ~Lagged(receivers[r].got)
        /\ Len(receivers[r].got) >= 2
        /\ NoPushInFlight

(***************************************************************************)
(* Streams (under SpecStream).                                             *)
(***************************************************************************)
\* The stream has yielded all there is: its snapshot is replayed and its live
\* receiver is empty.
Drained(st) == st.pc = "open" /\ st.pos = Len(st.hist) /\ st.next = Len(sender)

Yielded(st, msg) == \E k \in 1..Len(st.out) : st.out[k] = msg

FinishedAt(seq, i) == seq[i].kind = "Finished"

\* C1: a history_plus_stream whose receiver has not overflowed yields every
\* message that was in the history when the call started and every message
\* pushed after the call started.
C1_NoMessageLost ==
    \A s \in Streams :
        LET st == streams[s]
        IN  (st.mode = "all" /\ Drained(st) /\ ~st.lagged) =>
                /\ \A i \in 1..Len(st.hist) : Yielded(st, st.hist[i])
                /\ \A i \in (st.start + 1)..Len(sender) : Yielded(st, sender[i])

\* C2: two messages have the same relative order in the history, in every
\* history_plus_stream and in the live receivers, whose order is that of the
\* sends, the first statement of the push calls.
C2_NoReordering ==
    /\ \A i, j \in 1..Len(history) : i < j => history[i].msg.id < history[j].msg.id
    /\ \A s \in Streams :
          \A i, j \in 1..Len(streams[s].out) :
              i < j => streams[s].out[i].id <= streams[s].out[j].id

\* C7: what history_plus_stream yields is in push order, with at most one
\* duplicate, which sits at the seam between the snapshot and the live tail.
C7_InOrderOneDuplicateAtSeam ==
    \A s \in Streams :
        LET st == streams[s]
        IN  st.mode = "all" =>
                \A i, j \in 1..Len(st.out) :
                    i < j =>
                        \/ st.out[i].id < st.out[j].id
                        \/ /\ st.out[i].id = st.out[j].id
                           /\ i = Len(st.hist)
                           /\ j = Len(st.hist) + 1

\* C9: Finished is the last entry of the history, the last message sent to the
\* subscribers and the last item a history_plus_stream yields.
C9_FinishedIsLast ==
    /\ \A i \in 1..Len(history) : history[i].msg.kind = "Finished" => i = Len(history)
    /\ \A i \in 1..Len(sender) : FinishedAt(sender, i) => i = Len(sender)
    /\ \A s \in Streams :
          \A i \in 1..Len(streams[s].out) :
              FinishedAt(streams[s].out, i) => i = Len(streams[s].out)

\* C10: a chunked stream has ended only if Finished was pushed, and once a push
\* of Finished has returned, a stream that has not ended has items left to
\* take (it does not stay pending with Finished behind it).
C10_EndsIffFinishedPushed ==
    \A s \in Streams :
        LET st == streams[s]
        IN  st.mode \in {"stdout", "stderr"} =>
                /\ st.pc = "ended" => \E i \in 1..Len(sender) : FinishedAt(sender, i)
                /\ (/\ st.pc = "open"
                    /\ NoPushInFlight
                    /\ \E i \in 1..Len(appended) : appended[i].msg.kind = "Finished")
                        => ~Drained(st)

\* The items of seq before its first Finished (all of seq when it has none).
RECURSIVE BeforeFinished(_)
BeforeFinished(seq) ==
    IF Len(seq) = 0 \/ Head(seq).kind = "Finished" THEN <<>>
    ELSE <<Head(seq)>> \o BeforeFinished(Tail(seq))

OfKind(seq, kind) == SelectSeq(seq, LAMBDA m : m.kind = kind)

Behind(r) == Len(sender) - receivers[r].next

\* C12: no state of the subscribers blocks a push: a pusher that is not in a
\* call can send, and a pusher that has sent can append and return, whatever
\* the receivers and streams are doing.
C12_PushNeverBlocked ==
    \A p \in SubsPushers :
        /\ (pushing[p] = NoMsg /\ Len(sender) < MaxSubsPush)
              => ENABLED PushSend(p, SubsPayloads, MaxSubsPush)
        /\ pushing[p] # NoMsg => ENABLED PushAppend(p)

\* Every push has completed although one receiver is further behind than the
\* channel holds and the other has been dropped.
C12_Witness ==
    /\ NoPushInFlight
    /\ Len(appended) = MaxSubsPush
    /\ \E r1, r2 \in AllReceivers :
          /\ receivers[r1].state = "live" /\ Behind(r1) > CHANNEL_CAPACITY
          /\ receivers[r2].state = "dropped"

\* The subscribers whose state a step changes.
ChangedReceivers == {r \in AllReceivers : receivers'[r] # receivers[r]}
ChangedStreams == {s \in Streams : streams'[s] # streams[s]}

\* C13: a step of a subscriber (any step that is not part of a push: a
\* subscription, a snapshot, a recv or poll, a lag notification, a drop)
\* leaves the history, total_bytes and the channel unchanged and changes no
\* other subscriber.
C13_SubscribersChangeNothingElse ==
    [][pushing' = pushing =>
          /\ history' = history
          /\ total_bytes' = total_bytes
          /\ sender' = sender
          /\ Cardinality(ChangedReceivers) + Cardinality(ChangedStreams) <= 1]_vars

\* A receiver has overflowed and another was dropped while the stream holds a
\* snapshot and the history is intact.
C13_Witness ==
    /\ \E r1, r2 \in AllReceivers :
          /\ Lagged(receivers[r1].got)
          /\ receivers[r2].state = "dropped"
    /\ \E s \in Streams : streams[s].pc = "open" /\ Len(streams[s].hist) > 0
    /\ Len(history) = MaxSubsPush

(***************************************************************************)
(* The control protocol peer (under SpecPeer).                             *)
(***************************************************************************)
\* The control responses on the child's stdin that carry a request id.
ResponsesFor(id) ==
    SelectSeq(stdin, LAMBDA f : f.type = "control_response" /\ f.request_id = id)

\* The calls of the approval handler made for a request.
CallsFor(id) == SelectSeq(calls, LAMBDA c : c.request_id = id)

\* The requests of a subtype among the lines the reader has read.
RequestsRead(subtype) ==
    {CLIMessage(read[i]) : i \in {j \in 1..Len(read) :
        /\ CLIMessage(read[j]).tag = "ControlRequest"
        /\ CLIMessage(read[j]).subtype = subtype}}

IsAllow(frame, input) ==
    /\ frame.subtype = "success"
    /\ frame.response.behavior = "allow"
    /\ frame.response.updatedInput = input

\* C14: a can_use_tool request is answered allow with its input unchanged and
\* without a handler call when no handler is configured or the request has no
\* tool_use_id; otherwise the handler is called exactly once with (tool_name,
\* input, tool_use_id) and its verdict is relayed: Allow as allow with the
\* updated input, Deny as deny with the same message and interrupt.
C14_CanUseToolDispatch ==
    \A msg \in RequestsRead("CanUseTool") :
        LET resp == ResponsesFor(msg.request_id)
            made == CallsFor(msg.request_id)
        IN  IF auto_approve \/ msg.tool_use_id = "None"
            THEN /\ Len(made) = 0
                 /\ Len(resp) = 1
                 /\ IsAllow(resp[1], msg.input)
            ELSE /\ Len(made) = 1
                 /\ made[1].tool_name = msg.tool_name
                 /\ made[1].input = msg.input
                 /\ made[1].tool_use_id = msg.tool_use_id
                 /\ made[1].verdict.tag = "Pending" => Len(resp) = 0
                 /\ made[1].verdict.tag = "Allow" =>
                        /\ Len(resp) = 1
                        /\ IsAllow(resp[1], made[1].verdict.updated_input)
                 /\ made[1].verdict.tag = "Deny" =>
                        /\ Len(resp) = 1
                        /\ resp[1].subtype = "success"
                        /\ resp[1].response.behavior = "deny"
                        /\ resp[1].response.message = made[1].verdict.message
                        /\ resp[1].response.interrupt = made[1].verdict.interrupt

\* With a handler configured, a request without tool_use_id was allowed as it
\* came and the next request went to the handler, whose Deny was relayed.
C14_Witness ==
    /\ ~auto_approve
    /\ Len(read) = 2
    /\ read[1].shape = "can_use_tool_no_id"
    /\ read[2].shape = "can_use_tool"
    /\ Len(calls) = 1
    /\ calls[1].verdict.tag = "Deny"
    /\ calls[1].verdict.interrupt = "true"
    /\ Len(stdin) = 2
    /\ stdin[2].response.behavior = "deny"

\* The calls of the handler that ended in an error.
FailedCalls == {i \in 1..Len(calls) : calls[i].verdict.tag = "Err"}

\* C15 as stated: the error response carries the handler's error string.
C15_ErrorCarriesHandlerString ==
    \A i \in FailedCalls :
        ResponsesFor(calls[i].request_id)
            = <<ControlResponseError(calls[i].request_id, calls[i].verdict.error)>>

\* C15: when the handler returns an error the reader writes, in that step,
\* one error response with the request's id whose error is "Approval failed: "
\* followed by the handler's error string, and waits for the next line; no
\* other response for that request is ever written.
C15_ErrorCarriesApprovalFailedString ==
    [][/\ (reader = "handler" /\ reader' # "handler" /\ Len(calls) \in FailedCalls') =>
            /\ stdin' = Append(stdin,
                   ControlResponseError(request.request_id,
                       "Approval failed: " \o calls'[Len(calls)].verdict.error))
            /\ reader' = "select"
       /\ \A i \in FailedCalls' :
            LET resp == ResponsesFor(calls[i].request_id)'
            IN  Len(resp) = 1 /\ resp[1].subtype = "error"]_vars

\* The handler failed for the first request, the error response is on stdin,
\* and the reader has read and logged the line that came after.
C15_Witness ==
    /\ 1 \in FailedCalls
    /\ Len(ResponsesFor(calls[1].request_id)) = 1
    /\ Len(read) = 2
    /\ read[1].shape = "can_use_tool"
    /\ log = <<read[2]>>

\* C16: a hook_callback request never reaches the approval handler; it is
\* answered once, with the PreToolUse hook output: decision allow and reason
\* Auto-approved when no handler is configured, decision ask when one is.
C16_HookCallbackNeverCallsHandler ==
    \A msg \in RequestsRead("HookCallback") :
        LET resp == ResponsesFor(msg.request_id)
        IN  /\ Len(CallsFor(msg.request_id)) = 0
            /\ Len(resp) = 1
            /\ resp[1].subtype = "success"
            /\ resp[1].response.hookEventName = "PreToolUse"
            /\ IF auto_approve
               THEN /\ resp[1].response.permissionDecision = "allow"
                    /\ resp[1].response.permissionDecisionReason = "Auto-approved"
               ELSE resp[1].response.permissionDecision = "ask"

\* A handler is configured and has been asked about a can_use_tool request,
\* and the hook_callback read after it was answered ask.
C16_Witness ==
    /\ ~auto_approve
    /\ Len(read) = 2
    /\ read[2].shape = "hook_callback"
    /\ Len(calls) = 1
    /\ Len(stdin) = 2
    /\ stdin[2].response.permissionDecision = "ask"

C18_EveryLineReadIntactInOrder ==
    \A i \in 1..Len(read) : i <= Len(lines) /\ read[i] = lines[i]

\* The interrupt control-requests on the child's stdin.
InterruptsWritten == Len(SelectSeq(stdin, LAMBDA f : f = InterruptRequest))

\* C19: the reader writes at most one interrupt control-request.
C19_AtMostOneInterrupt == InterruptsWritten <= 1

\* The interrupt was the first frame written; every line of the run was read
\* and answered after it, and the reader is in select again.
C19_Witness ==
    /\ interrupt_rx = "fired"
    /\ reader = "select"
    /\ Len(stdin) = MaxLines + 1
    /\ stdin[1] = InterruptRequest
    /\ Len(read) = MaxLines

\* The interrupt was sent before the reader ended.
LiveSignal == signalled_in \in {"none", "select", "handler"}

\* C20 as stated, in the form a finite run refutes: a reader that has ended
\* after the interrupt was sent to it has written the interrupt.
C20_LiveSignalWrittenBeforeExit ==
    (reader = "done" /\ LiveSignal) => InterruptsWritten = 1

\* C20: an interrupt sent while the reader has not ended leads to the
\* interrupt being written or to the end of the reader (result, EOF or read
\* error), whichever comes first; while the reader awaits the approval
\* handler nothing is written for the interrupt, it is written after the
\* handler has returned.
C20_LiveSignalWrittenUnlessReaderEnds ==
    /\ LiveSignal ~> (InterruptsWritten = 1 \/ reader = "done")
    /\ [][reader = "handler" => InterruptsWritten' = InterruptsWritten]_vars

\* The interrupt was sent while the reader awaited the handler, and it was
\* written after the response to that request.
C20_Witness ==
    /\ signalled_in = "handler"
    /\ Len(stdin) = 2
    /\ stdin[1].type = "control_response"
    /\ stdin[2] = InterruptRequest

(***************************************************************************)
(* The in-memory storage (under SpecStorage).                              *)
(***************************************************************************)
\* The ids create has handed out, and the callers that are inside create.
Created == 1..uuids
Creating == {c \in Callers : callers[c].pc = "create_outputs"}

\* C27: the step of create that inserts the session inserts, under an id no
\* earlier create has got, a record with status Pending, no agent_session_id
\* and created_at equal to updated_at; the step that follows inserts an empty
\* output blob under that id; both leave every other record and blob as it is.
C27_CreateInsertsFreshPending ==
    [][/\ uuids' # uuids =>
            LET id == uuids'
            IN  /\ id \notin Created
                /\ sessions[id] = NoSession
                /\ sessions'[id].status = "Pending"
                /\ sessions'[id].agent_session_id = "None"
                /\ sessions'[id].created_at = sessions'[id].updated_at
                /\ sessions'[id].created_at = clock
                /\ \A other \in SessionIds \ {id} : sessions'[other] = sessions[other]
                /\ outputs' = outputs
       /\ \A c \in Creating :
            callers'[c].pc # "create_outputs" =>
                LET id == callers[c].id
                IN  /\ ~outputs[id].present
                    /\ outputs'[id] = [present |-> TRUE, data |-> <<>>]
                    /\ \A other \in SessionIds \ {id} : outputs'[other] = outputs[other]
                    /\ sessions' = sessions]_vars

\* A second create has returned, at a time after the epoch, next to a session
\* that is no longer as create made it and whose blob is not empty.
C27_Witness ==
    /\ ret = [op |-> "create", id |-> 2, result |-> "Ok"]
    /\ sessions[2].created_at > 0
    /\ sessions[1].status = "Running"
    /\ sessions[1].agent_session_id = "agent"
    /\ Len(outputs[1].data) > 0
    /\ outputs[2] = [present |-> TRUE, data |-> <<>>]

\* C28: for an id no create has handed out, update_status,
\* set_agent_session_id, append_output and get_output fail with NotFound and
\* change no record and no blob, and get returns none.
C28_UnknownIdNotFound ==
    /\ \A id \in AnyIds \ Created :
          /\ \A status \in Statuses :
                update_status(id, status) = [sessions |-> sessions, result |-> "NotFound"]
          /\ set_agent_session_id(id, "agent") = [sessions |-> sessions, result |-> "NotFound"]
          /\ append_output(id, <<1>>) = [outputs |-> outputs, result |-> "NotFound"]
          /\ get_output(id).result = "NotFound"
          /\ get(id) = NoSession
    /\ (ret.op \in {"update_status", "set_agent_session_id", "append_output"}
            /\ ret.id \notin Created) => ret.result = "NotFound"

\* append_output has just failed for an id never created, next to a session
\* that exists and has output.
C28_Witness ==
    /\ ret = [op |-> "append_output", id |-> UnknownId, result |-> "NotFound"]
    /\ uuids = 1
    /\ Len(outputs[1].data) > 0
    /\ sessions[1].status = "Running"

\* C26: a session whose status is Completed, Failed or Cancelled keeps that
\* status in every step.
C26_TerminalStatusStays ==
    [][\A id \in SessionIds :
          (Exists(id) /\ sessions[id].status \in Terminal)
              => sessions'[id].status = sessions[id].status]_vars

(***************************************************************************)
(* list (under SpecList).                                                  *)
(***************************************************************************)
MatchingIds(filter) == {id \in SessionIds : Matches(id, filter)}
Range(seq) == {seq[i] : i \in 1..Len(seq)}

\* What list has to return whatever the order of ties: the matching
\* sessions, each once, by created_at descending, cut to the limit.
ListedByCreatedAt(res, filter) ==
    /\ Range(res) \subseteq MatchingIds(filter)
    /\ \A i, j \in 1..Len(res) : res[i] = res[j] => i = j
    /\ Len(res) = IF filter.has_limit /\ filter.limit < Cardinality(MatchingIds(filter))
                  THEN filter.limit ELSE Cardinality(MatchingIds(filter))
    /\ \A i, j \in 1..Len(res) :
          i < j => sessions[res[i]].created_at >= sessions[res[j]].created_at

\* C29 as stated: the sessions left out by the limit were all created before
\* the sessions returned (ids are in the order of creation).
C29_ListMostRecentlyCreated ==
    \A filter \in ListFilters, order \in Orders :
        LET res == list(filter, order)
        IN  /\ ListedByCreatedAt(res, filter)
            /\ \A out \in MatchingIds(filter) \ Range(res), in \in Range(res) : out < in

\* C29: list returns the matching sessions by created_at descending, cut to
\* the limit; no session left out has a later created_at than one returned.
\* Between sessions created in the same second nothing is promised.
C29_ListNewestByTimestamp ==
    \A filter \in ListFilters, order \in Orders :
        LET res == list(filter, order)
        IN  /\ ListedByCreatedAt(res, filter)
            /\ \A out \in MatchingIds(filter) \ Range(res), in \in Range(res) :
                  sessions[out].created_at <= sessions[in].created_at

\* list with limit 1 has returned the later of two sessions created in
\* different seconds, the earlier one completed since.
C29_Witness ==
    /\ ret.op = "list"
    /\ ret.filter = Filter("Any", "Any", TRUE, 1)
    /\ ret.result = <<2>>
    /\ uuids = 2
    /\ sessions[1].created_at < sessions[2].created_at
    /\ sessions[1].status = "Completed"

(***************************************************************************)
(* The session manager (under SpecManager and SpecFollowUp).               *)
(***************************************************************************)
NoCallInProgress == \A c \in Callers : callers[c].pc = "idle"

\* C21: a session that start_session started and returned, and whose child
\* has ended, is Completed or Failed once no call is in progress; under
\* SpecManager nothing is left that could change it later.
C21_EndedChildFinishesSession ==
    \A id \in SessionIds :
        ( /\ children[id].by = "start_session"
          /\ children[id].state \in {"exited", "crashed"}
          /\ active_sessions[id].present
          /\ NoCallInProgress )
        => sessions[id].status \in {"Completed", "Failed"}

\* C22: once interrupt_session(id) has returned for an active session whose
\* child still runs, the session's one-shot interrupt channel has been
\* signalled, which is what makes the peer write the interrupt line.
C22_InterruptReachesChild ==
    \A id \in SessionIds :
        (interrupts[id] > 0 /\ children[id].state = "running") => signals[id] > 0

ValidOriginal(id) ==
    /\ id \in SessionIds
    /\ Exists(id)
    /\ sessions[id].agent_session_id # "None"

\* C23: start_follow_up goes on only for an original that is stored and has
\* its agent_session_id; otherwise it returns NotFound(original_id), and then
\* it has created no record, spawned no process, registered no session.
C23_FollowUpNotFound ==
    [][ /\ \A c \in Callers :
              callers'[c].op = "start_follow_up" => ValidOriginal(callers[c].orig)'
        /\ (ret' # ret /\ ret'.op = "start_follow_up" /\ ret'.result = "NotFound")
              => /\ ~ValidOriginal(ret'.id)
                 /\ UNCHANGED <<sessions, outputs, uuids, active_sessions, msg_stores,
                                children, callers>> ]_vars

C23_Witness ==
    /\ ret.op = "start_follow_up"
    /\ ret.result = "NotFound"
    /\ ret.id \in SessionIds
    /\ Exists(ret.id)
    /\ \E id \in SessionIds : children[id].by = "start_follow_up"

ActiveIds == {id \in SessionIds : active_sessions[id].present}

Registered ==
    {id \in SessionIds :
        /\ children[id].state # "none"
        /\ \A c \in Callers : ~(callers[c].pc = "insert" /\ callers[c].id = id)}

\* C25: get_msg_store(id) returns a store exactly for the registered ids, the
\* same store on every call, and never one store for two ids.
C25_MsgStorePerRegisteredId ==
    [][ /\ \A id \in AnyIds : (get_msg_store(id)' # 0) <=> (id \in Registered')
        /\ \A id \in AnyIds :
              get_msg_store(id) # 0 => get_msg_store(id)' = get_msg_store(id)
        /\ \A a, b \in SessionIds :
              (a # b /\ get_msg_store(a)' # 0 /\ get_msg_store(b)' # 0)
                  => get_msg_store(a)' # get_msg_store(b)' ]_vars

C25_Witness ==
    /\ \A id \in SessionIds : get_msg_store(id) # 0
    /\ \E id \in SessionIds : children[id].by = "start_follow_up"
    /\ get_msg_store(UnknownId) = 0

(***************************************************************************)
(* The wire protocol (under SpecWire).                                     *)
(***************************************************************************)
\* C30: what decode_input() returns for ClientMessage::input(b), and
\* decode_output() for ServerMessage::output(b), is b, straight away and
\* after the message went through its JSON text and was parsed again as the
\* same enum.
C30_WireRoundTrip ==
    /\ wire_pc = "decoded" => wire_decoded = [some |-> TRUE, bytes |-> wire_bytes]
    /\ wire_pc = "parsed"
           => wire_msg \in {ClientMessage_input(wire_bytes), ServerMessage_output(wire_bytes)}

C30_Witness ==
    /\ wire_pc = "decoded"
    /\ wire_json # <<>>
    /\ Len(wire_bytes) = 2
    /\ wire_bytes[1] = 251
    /\ wire_msg.side = "server"
    /\ wire_decoded.some

(***************************************************************************)
(* The manager's bookkeeping and the backend under concurrent callers.     *)
(***************************************************************************)
\* C39: while no start_session or start_follow_up call is in progress, every
\* session persisted as Running has its store in the active sessions.
C39_RunningSessionsAreActive ==
    NoCallInProgress
        => \A id \in SessionIds :
               (Exists(id) /\ sessions[id].status = "Running") => get_msg_store(id) # 0

\* C40: in every state the session map and the output map hold the same
\* ids: an id that get or list yields is known to append_output and
\* get_output.
C40_MapsHoldSameIds ==
    \A id \in SessionIds :
        /\ Exists(id) <=> outputs[id].present
        /\ get(id) # NoSession =>
               (get_output(id).result = "Ok" /\ append_output(id, <<1>>).result = "Ok")

(***************************************************************************)
(* The reader of the peer again (under SpecPeer).                          *)
(***************************************************************************)
\* The request ids of the control requests read, in the order read, and of
\* the control responses written, in the order written.
RequestIdsRead ==
    LET reqs == SelectSeq(read, LAMBDA line : CLIMessage(line).tag = "ControlRequest")
    IN  [i \in 1..Len(reqs) |-> reqs[i].id]

ResponseIdsWritten ==
    LET resps == SelectSeq(stdin, LAMBDA f : f.type = "control_response")
    IN  [i \in 1..Len(resps) |-> resps[i].request_id]

Loggable(line) == line.shape \in {"result", "other", "invalid", "fragment"}

\* C36: the log sink holds the lines read that are neither blank nor control
\* requests nor control responses, text that is not JSON included, each
\* once and in the order read.
C36_LogHoldsNonControlLinesInOrder == log = SelectSeq(read, Loggable)

C36_Witness ==
    /\ Len(read) = 2
    /\ read[1].shape = "blank"
    /\ read[2].shape = "invalid"
    /\ log = <<read[2]>>

\* C38: an interrupt control-request is on the child's stdin only if a
\* value was sent on the interrupt channel.
C38_InterruptOnlyWhenSent == InterruptsWritten > 0 => interrupt_tx = "sent"

(***************************************************************************)
(* The WebSocket transport (under SpecWs).                                 *)
(***************************************************************************)
\* The frames received whose text does not decode as a ClientMessage.
Undecodable(frame) == frame_text(frame).some /\ ~client_message(frame_text(frame).text).ok

\* What the frames received call for, in their order.
RECURSIVE RepliesDue(_)
RepliesDue(frames) ==
    IF Len(frames) = 0 THEN <<>>
    ELSE LET frame == Head(frames)
             due == CASE Undecodable(frame) ->
                            <<[tag |-> "Error",
                               field |-> "Invalid message: "
                                             \o client_message(frame_text(frame).text).error]>>
                      [] frame \in {[kind |-> "text", body |-> "ping"],
                                    [kind |-> "binary", body |-> "ping"]} ->
                            <<[tag |-> "Pong", field |-> ""]>>
                      [] frame = [kind |-> "text", body |-> "start_session"] ->
                            <<[tag |-> "SessionStarted", field |-> "placeholder"]>>
                      [] OTHER -> <<>>
         IN  due \o RepliesDue(Tail(frames))

ErrorFrames == SelectSeq(ws_out, LAMBDA f : f.type = "error")

BaseTokens == IF cmd_windows THEN winsplit_split(cmd_base) ELSE shlex_split(cmd_base)

\* C32: for a base template that can be split, build(extra) fails with
\* EmptyCommand when tokens ++ params ++ extra is empty, and else yields its
\* first element as program and the rest as args.
C32_BuildYieldsFirstAndRest ==
    (cmd_result.called /\ BaseTokens.some) =>
        LET parts == BaseTokens.parts \o cmd_params.list \o cmd_result.extra
        IN  IF Len(parts) = 0
            THEN ~cmd_result.ok /\ cmd_result.error = "EmptyCommand"
            ELSE /\ cmd_result.ok
                 /\ cmd_result.program = Head(parts)
                 /\ cmd_result.args = Tail(parts)

(***************************************************************************)
(* Executable resolution (under SpecPath).                                 *)
(***************************************************************************)
\* C33: PATH is written at most once in the life of the process.
C33_PathSetAtMostOnce == path_sets <= 1

(***************************************************************************)
(* The forwarder (under SpecFwd).                                          *)
(***************************************************************************)
\* The message an item of the source stands for in the store.
Expected(i) ==
    IF fwd_items[i].ok
    THEN [id |-> i, kind |-> fwd_items[i].kind, len |-> fwd_items[i].len,
          text |-> fwd_items[i].text]
    ELSE [id |-> i, kind |-> "Stderr", len |-> STREAM_ERROR_LEN + fwd_items[i].len,
          text |-> "stream error: " \o fwd_items[i].text]

\* The items the forwarder has taken from the stream.
Taken == Len(fwd_items) - Len(fwd_stream)

\* C34: the forwarder has pushed one message for every item it has taken (the
\* one in hand has been sent and is about to be appended), in source order,
\* Ok(m) as m and Err(e) as Stderr("stream error: {e}"); it goes on after an
\* error item, and it finishes when the source has ended and only then, with
\* every item pushed.
C34_ForwarderPushesEveryItemInOrder ==
    /\ Len(sender) = Taken
    /\ \A i \in 1..Len(sender) : sender[i] = Expected(i)
    /\ Len(appended) = IF fwd_pc = "append" THEN Taken - 1 ELSE Taken
    /\ \A i \in 1..Len(appended) : appended[i].msg = Expected(i)
    /\ fwd_pc = "finished" => (fwd_ended /\ Taken = Len(fwd_items))

C34_Witness ==
    /\ fwd_pc = "finished"
    /\ Len(fwd_items) = 3
    /\ ~fwd_items[1].ok
    /\ fwd_items[2].kind = "Finished"
    /\ fwd_items[3].kind = "Stdout"
    /\ Len(appended) = 3
    /\ appended[1].msg.text = "stream error: boom"

(***************************************************************************)
(* The bytes on the child's stdin (under SpecOut).                         *)
(***************************************************************************)
\* The bytes cut at the line feeds: the whole lines, and what follows the
\* last line feed.
RECURSIVE SplitLines(_, _, _)
SplitLines(bytes, whole, rest) ==
    IF Len(bytes) = 0 THEN [whole |-> whole, rest |-> rest]
    ELSE IF bytes[1] = "\n"
    THEN SplitLines(SubSeq(bytes, 2, Len(bytes)), Append(whole, rest), <<>>)
    ELSE SplitLines(SubSeq(bytes, 2, Len(bytes)), whole, Append(rest, bytes[1]))

\* The texts of the frames the tasks send.
FrameTexts == {frame_json(frame) : frame \in ReaderFrames \cup CallerFrames}

IsPrefix(a, b) == Len(a) <= Len(b) /\ SubSeq(b, 1, Len(a)) = a

\* The tasks between the first write of a frame and the return of send_json.
Writing == {w \in Writers : out_pc[w] \in {"write_json", "write_newline", "flush"}}

\* The part of its frame the holder of the mutex has written and not ended.
Written ==
    IF out_lock \in Writers /\ out_pc[out_lock] \in {"write_json", "write_newline"}
    THEN SubSeq(out_json[out_lock], 1, out_off[out_lock])
    ELSE <<>>

\* C37: at most one task is writing a frame; every line on the child's stdin
\* is one whole frame followed by one line feed, frames are never
\* interleaved: what follows the last line feed is the part of the frame
\* that the one writing task has written so far, and nothing when no task
\* is writing.  Once the child has closed its stdin the last frame written
\* to can stay cut short, and nothing follows it.
C37_FramesAtomicPerLine ==
    LET s == SplitLines(out_stdin, <<>>, <<>>)
    IN  /\ Cardinality(Writing) <= 1
        /\ \A i \in 1..Len(s.whole) : s.whole[i] \in FrameTexts
        /\ ~out_broken => s.rest = Written
        /\ out_broken => \E text \in FrameTexts : IsPrefix(s.rest, text)

\* One frame of a caller is on stdin, the other caller is in the middle of
\* its user message with a line feed in it, and the reader task waits for
\* the mutex with the interrupt frame.
C37_Witness ==
    /\ ~out_broken
    /\ out_pc["w1"] = "write_json"
    /\ out_json["w1"] = frame_json([type |-> "user", content |-> <<"\n">>])
    /\ out_off["w1"] = 4
    /\ out_pc["reader"] = "lock"
    /\ out_json["reader"] = frame_json([type |-> "interrupt", content |-> <<>>])
    /\ out_pc["w2"] = "idle"
    /\ out_calls = 3
    /\ out_stdin = frame_json([type |-> "initialize", content |-> <<>>])
                       \o <<"\n", "{", "u", "\"", "\\">>

====
